---- MODULE Spec2Model ----
(***************************************************************************)
(* Loan dashboard: the amortization scheduler (buildAmortSchedule) and the  *)
(* consumers of its schedule, as a state machine.                           *)
(*                                                                          *)
(* Money.  The scheduler keeps the running balance unrounded and rounds     *)
(* every row field with toFixed(2).  The running amounts are integers in    *)
(* units of 1/SubCent cent; row fields are integers in cents.               *)
(* Dates.  A month is an integer (year * 12 + month); a day-precision date  *)
(* is the pair <<month, day>>.  Month 0 is the loan's start month.          *)
(* Rates.  monthlyRate is the exact fraction num/den.                       *)
(***************************************************************************)
EXTENDS Integers, Sequences, FiniteSets, TLC

VARIABLES
    loan,               \* the loan record handed to buildAmortSchedule
    pc,                 \* "loop" inside the month loop, "done" after the return
    i,                  \* contractual month index (0-based)
    calendarDate,       \* calendar month being processed
    balance,            \* running balance, unrounded
    deferralRemaining,  \* months left in the active deferral run
    deferralTotal,      \* length of the active deferral run
    schedule,           \* rows pushed so far
    hist,               \* per row: the unrounded amounts the row was made from
    derived,            \* deriveLoansWithRoi's result for the loan, or NoResult
    income,             \* calcMonthlyExpectedIncome's last result, or NoResult
    own,                \* a loan under normalizeOwnership, with the calls made on it
    earn,               \* the earnings engine's results for the loan
    roi,                \* the portfolio: the derived loans and the ROI and TPV results on them
    storage             \* the storage worker: the stored file, its clients, the PUTs answered

\* the variables of the components other than the scheduler and its consumers
auxVars == <<own, earn, roi, storage>>

vars == <<loan, pc, i, calendarDate, balance, deferralRemaining, deferralTotal, schedule, hist, derived, income, own, earn, roi, storage>>

-----------------------------------------------------------------------------
(* Bounds of the model *)

SubCent == 10       \* unrounded units per cent
MaxEvents == 3      \* events per loan
MaxDeferral == 3    \* months requested by the longest single deferral event

Null == -1          \* JavaScript null in a numeric row field
NoResult == <<>>

\* an absent (undefined) field is the empty tuple, a present one a 1-tuple
Undefined == <<>>
Some(x) == <<x>>

\* the state in which the ownership engine has no loan to work on
OwnIdle == [ variant |-> "none", user |-> Undefined, loan |-> Undefined,
             calls |-> 0, first |-> Undefined ]

\* the state in which the earnings engine has produced nothing
EarnIdle == [ schedule |-> Undefined, series |-> Undefined, current |-> Undefined ]

\* the state in which the storage worker is not looked at
StorageIdle == [ file |-> Undefined, client |-> Undefined, log |-> <<>> ]

\* the state in which the ROI engine holds no derived loan
RoiIdle == [ loans |-> <<>>, timeline |-> Undefined, kpis |-> Undefined, tpv |-> Undefined ]

MonthsPerYear == 12
LiquidationPct == 95

Min(a, b) == IF a <= b THEN a ELSE b
Max(a, b) == IF a >= b THEN a ELSE b

RECURSIVE Pow(_, _)
Pow(b, n) == IF n <= 0 THEN 1 ELSE b * Pow(b, n - 1)

RECURSIVE SumSeq(_)
SumSeq(s) == IF s = <<>> THEN 0 ELSE Head(s) + SumSeq(Tail(s))

\* +(x.toFixed(2)): round the unrounded amount to cents, half away from zero
ToFixed2(x) ==
    IF x >= 0 THEN (x + SubCent \div 2) \div SubCent
    ELSE -((-x + SubCent \div 2) \div SubCent)

\* a Date as a comparable number: first-of-month dates have day 1
DayStamp(month, day) == month * 31 + day

-----------------------------------------------------------------------------
(* Inputs *)

Cents(c) == c * SubCent

PrepayEvent(m, amt) == [type |-> "prepayment", month |-> m, months |-> 0, amount |-> amt]
DeferralEvent(m, n) == [type |-> "deferral", month |-> m, months |-> n, amount |-> 0]
DefaultEvent(m, rec) == [type |-> "default", month |-> m, months |-> 0, amount |-> rec]

Huge == Cents(9000000)                       \* an amount above any balance

\* The events a loan's list is drawn from, in list order.
EventPool ==
    << DefaultEvent(2, Cents(30)),           \* inside a run started in month 1
       DefaultEvent(1, Huge),                \* recovery above any balance
       DefaultEvent(40, 0),                  \* dated after the schedule ends
       DeferralEvent(1, MaxDeferral),        \* "3-month deferral starting month 2"
       DeferralEvent(2, 2),                  \* starts inside the run above
       DeferralEvent(1, 1),                  \* same start month: summed
       DeferralEvent(1 + MaxDeferral, 1),    \* starts right after the run ends
       DeferralEvent(3, 0),                  \* months = 0: filtered out
       PrepayEvent(3, Cents(20)),
       PrepayEvent(3, Huge),                 \* above any balance: capped
       PrepayEvent(2, Cents(10)),
       PrepayEvent(4, Cents(50)) >>

EventsAt(S) ==
    LET F[k \in 0..Len(EventPool)] ==
            IF k = 0 THEN <<>>
            ELSE IF k \in S THEN Append(F[k - 1], EventPool[k]) ELSE F[k - 1]
    IN F[Len(EventPool)]

EventLists ==
    { EventsAt(S) : S \in { T \in SUBSET (1..Len(EventPool)) : Cardinality(T) <= MaxEvents } }

Principals == {0, Cents(100)}
Rates == {<<0, 1>>, <<1, 1>>}                \* monthlyRate as <<num, den>>
Terms == {<<0, 1>>, <<1, 1>>, <<1, 0>>}      \* <<graceYears, termYears>>
PurchaseDates == {<<0, 1>>, <<2, 15>>}       \* <<month, day>>
PurchasePrices == {90}                       \* cents
TargetMonths == {0, 2}                       \* months an income projection is asked for

Loans ==
    { [principal |-> p, rate |-> r, graceYears |-> t[1], termYears |-> t[2],
       startMonth |-> 0, purchaseDate |-> pd, purchasePrice |-> pp,
       events |-> ev] :
        p \in Principals, r \in Rates, t \in Terms, pd \in PurchaseDates,
        pp \in PurchasePrices, ev \in EventLists }

-----------------------------------------------------------------------------
(* buildAmortSchedule: the values computed before the loop *)

graceMonths == loan.graceYears * MonthsPerYear
repaymentMonths == loan.termYears * MonthsPerYear
totalMonths == graceMonths + repaymentMonths

\* a date that did not parse: an Invalid Date (its time is NaN) or no Date at all
IsInvalidDate(month) == month = Null

\* first of the purchase month
purchaseMonth == loan.purchaseDate[1]

\* balance * monthlyRate
TimesRate(amount) == (amount * loan.rate[1]) \div loan.rate[2]

\* prepayMap[key]: the amounts of the prepayment events dated in the month, in list order
RECURSIVE PrepayAmounts(_, _)
PrepayAmounts(evs, month) ==
    IF evs = <<>> THEN <<>>
    ELSE LET e == Head(evs)
             rest == PrepayAmounts(Tail(evs), month)
         IN IF e.type = "prepayment" /\ e.month = month
            THEN <<e.amount>> \o rest ELSE rest

prepayMap(month) == PrepayAmounts(loan.events, month)

\* deferralStartMap[key]: the months of all deferral events starting in the month, summed
RECURSIVE DeferralMonths(_, _)
DeferralMonths(evs, month) ==
    IF evs = <<>> THEN 0
    ELSE LET e == Head(evs)
             rest == DeferralMonths(Tail(evs), month)
         IN IF e.type = "deferral" /\ e.month = month /\ e.months > 0
            THEN Max(0, e.months) + rest ELSE rest

deferralStartMap(month) == DeferralMonths(loan.events, month)

\* events.find(e => e.type === "default" && e.date)
RECURSIVE FindDefault(_)
FindDefault(evs) ==
    IF evs = <<>> THEN <<>>
    ELSE IF Head(evs).type = "default" THEN <<Head(evs)>> ELSE FindDefault(Tail(evs))

defaultEvent == FindDefault(loan.events)
hasDefault == defaultEvent # <<>>
defaultMonthKey == IF hasDefault THEN defaultEvent[1].month ELSE Null
defaultRecovery == IF hasDefault THEN defaultEvent[1].amount ELSE 0

-----------------------------------------------------------------------------
(* buildAmortSchedule: the pieces of one loop iteration *)

\* monthKeyFromDate(calendarDate) === defaultMonthKey
IsDefaultMonth == hasDefault /\ calendarDate = defaultMonthKey

\* the deferral counters after the activation test of this iteration
ActivatesDeferralAlways == deferralStartMap(calendarDate) > 0
ActivatesDeferralAfterGap == deferralRemaining = 0 /\ deferralStartMap(calendarDate) > 0 /\ (schedule = <<>> \/ ~schedule[Len(schedule)].isDeferred)
ActivatesDeferral == deferralRemaining = 0 /\ deferralStartMap(calendarDate) > 0
RemainingNow == IF ActivatesDeferral THEN deferralStartMap(calendarDate) ELSE deferralRemaining
TotalNowStale == deferralTotal
TotalNow == IF ActivatesDeferral THEN deferralStartMap(calendarDate) ELSE deferralTotal

\* the default test runs first in the loop body, before the deferral counters are read
TakesDefaultAfterDeferral == IsDefaultMonth /\ RemainingNow = 0
TakesDefault == IsDefaultMonth

\* Math.min(balance, amt) for one prepayment
AppliedPrepayUncapped(bal, amt) == amt
AppliedPrepay(bal, amt) == Min(bal, amt)

\* monthEvents.forEach: <<sum applied, balance afterwards>>
RECURSIVE ApplyPrepayments(_, _)
ApplyPrepayments(bal, amts) ==
    IF amts = <<>> THEN <<0, bal>>
    ELSE IF Head(amts) <= 0 THEN ApplyPrepayments(bal, Tail(amts))
    ELSE LET applied == AppliedPrepay(bal, Head(amts))
             rest == ApplyPrepayments(bal - applied, Tail(amts))
         IN <<applied + rest[1], rest[2]>>

\* Math.min(balance, defaultRecovery)
AppliedRecoveryUncapped(bal) == defaultRecovery
AppliedRecovery(bal) == Min(bal, defaultRecovery)

monthsSinceLoanStart == calendarDate - loan.startMonth

\* new Date(date.getFullYear(), date.getMonth() + n, 1) of a first-of-month date
addMonthsSameMonth(date, n) == date
addMonths(date, n) == date + n

\* Math.max(1, paymentMonthsTotal - paymentMonthNumber)
remainingPaymentMonthsOriginalTerm == repaymentMonths
remainingPaymentMonths == Max(1, repaymentMonths - (monthsSinceLoanStart - graceMonths))

\* r === 0 ? P / n : (P * r) / (1 - Math.pow(1 + r, -n)), in exact arithmetic:
\* (P r) / (1 - (1+r)^-n) = P r + P r / ((1+r)^n - 1)
dynPayment(P, n) ==
    LET num == loan.rate[1]
        den == loan.rate[2]
    IN IF num = 0 THEN P \div n
       ELSE TimesRate(P) + (TimesRate(P) * Pow(den, n)) \div (Pow(num + den, n) - Pow(den, n))

\* loanDate >= purchaseMonth; a comparison with an Invalid Date is false
IsOwnedRow(loanDate) == ~IsInvalidDate(purchaseMonth) /\ loanDate >= purchaseMonth

\* the post-pass: running totals over the owned rows
RECURSIVE WithCumulative(_, _, _, _)
WithCumulative(rows, cumP, cumI, cumPay) ==
    IF rows = <<>> THEN <<>>
    ELSE LET r == Head(rows)
             p == IF r.isOwned THEN cumP + r.principalPaid ELSE cumP
             n == IF r.isOwned THEN cumI + r.interest ELSE cumI
             y == IF r.isOwned THEN cumPay + r.payment ELSE cumPay
         IN <<[r EXCEPT !.cumPrincipal = p, !.cumInterest = n, !.cumPayment = y]>>
            \o WithCumulative(Tail(rows), p, n, y)

Row(loanDate, payment, principalPaid, interest, bal, prepayment, accrued, deferred, dIndex, dRemaining, isDefault, recovery) ==
    [ monthIndex |-> Len(schedule) + 1,
      loanDate |-> loanDate,
      payment |-> ToFixed2(payment),
      principalPaid |-> ToFixed2(principalPaid),
      interest |-> ToFixed2(interest),
      balance |-> ToFixed2(bal),
      prepayment |-> ToFixed2(prepayment),
      accruedInterest |-> ToFixed2(accrued),
      isDeferred |-> deferred,
      deferralIndex |-> dIndex,
      deferralRemaining |-> dRemaining,
      isOwned |-> IsOwnedRow(loanDate),
      defaulted |-> isDefault,
      isTerminal |-> isDefault,
      recovery |-> ToFixed2(recovery),
      contractualMonth |-> i + 1,
      cumPrincipal |-> 0, cumInterest |-> 0, cumPayment |-> 0 ]

-----------------------------------------------------------------------------
(* buildAmortSchedule: the loop, one action per kind of iteration *)

\* what the iteration read and computed, unrounded, kept beside the row it pushed
Hist(kind, balIn, balPre, amts, applied, balOut, n, pay, pending) ==
    [ kind |-> kind, balIn |-> balIn, balPre |-> balPre, amts |-> amts,
      applied |-> applied, balOut |-> balOut, n |-> n, pay |-> pay,
      pending |-> pending ]

\* the scheduler is handed one of the loans ls
SchedulerStart(ls) ==
    /\ loan \in ls
    /\ pc = "loop"
    /\ i = 0
    /\ calendarDate = loan.startMonth
    /\ balance = loan.principal
    /\ deferralRemaining = 0
    /\ deferralTotal = 0
    /\ schedule = <<>>
    /\ hist = <<>>
    /\ derived = NoResult
    /\ income = NoResult

Init ==
    /\ SchedulerStart(Loans)
    /\ own = OwnIdle
    /\ earn = EarnIdle
    /\ storage = StorageIdle
    /\ roi = RoiIdle

\* a loop whose header never ends it
LoopExitNever ==
    /\ pc = "loop"
    /\ ~(i < totalMonths)
    /\ UNCHANGED vars

\* for (let i = 0; i < totalMonths; ) is false: post-pass and return
LoopExit ==
    /\ pc = "loop"
    /\ ~(i < totalMonths)
    /\ schedule' = WithCumulative(schedule, 0, 0, 0)
    /\ pc' = "done"
    /\ UNCHANGED auxVars
    /\ UNCHANGED <<loan, i, calendarDate, balance, deferralRemaining, deferralTotal,
                   hist, derived, income>>

\* DEFAULT: terminal row, then break (stop): post-pass and return
DefaultStep(stop) ==
    /\ pc = "loop"
    /\ i < totalMonths
    /\ TakesDefault
    /\ LET applied == AppliedRecovery(balance)
           row == Row(calendarDate, applied, applied, 0, balance - applied, 0, 0,
                      FALSE, Null, Null, TRUE, applied)
       IN /\ schedule' = WithCumulative(Append(schedule, row), 0, 0, 0)
          /\ hist' = Append(hist, Hist("default", balance, balance, <<>>, 0,
                                       balance - applied, 0, applied,
                                       deferralRemaining))
    /\ pc' = IF stop THEN "done" ELSE "loop"
    /\ calendarDate' = IF stop THEN calendarDate ELSE addMonths(calendarDate, 1)
    /\ UNCHANGED auxVars
    /\ UNCHANGED <<loan, i, balance, deferralRemaining, deferralTotal,
                   derived, income>>

DefaultMonthNoBreak == DefaultStep(FALSE)
DefaultMonth == DefaultStep(TRUE)

\* DEFERRAL INSERTION MONTH: the contractual index i does not advance
DeferralMonth ==
    /\ pc = "loop"
    /\ i < totalMonths
    /\ ~TakesDefault
    /\ RemainingNow > 0
    /\ LET accruedInterest == TimesRate(balance)
           balPre == balance + accruedInterest
           amts == prepayMap(calendarDate)
           pp == ApplyPrepayments(balPre, amts)
           row == Row(calendarDate, 0, pp[1], 0, pp[2], pp[1], accruedInterest,
                      TRUE, TotalNow - RemainingNow, RemainingNow, FALSE, 0)
       IN /\ schedule' = Append(schedule, row)
          /\ hist' = Append(hist, Hist("deferred", balance, balPre, amts, pp[1],
                                       pp[2], 0, 0, RemainingNow - 1))
          /\ balance' = pp[2]
    /\ deferralRemaining' = RemainingNow - 1
    /\ deferralTotal' = TotalNow
    /\ calendarDate' = addMonths(calendarDate, 1)
    /\ UNCHANGED auxVars
    /\ UNCHANGED <<loan, pc, i, derived, income>>

\* NORMAL CONTRACTUAL MONTH: grace or payment, then prepayments; i advances;
\* break when the balance is paid off
NormalMonth ==
    /\ pc = "loop"
    /\ i < totalMonths
    /\ ~TakesDefault
    /\ RemainingNow = 0
    /\ LET interest == TimesRate(balance)
           inGrace == monthsSinceLoanStart < graceMonths
           paymentAmt == IF inGrace THEN 0 ELSE dynPayment(balance, remainingPaymentMonths)
           scheduled == IF inGrace THEN 0 ELSE Max(0, paymentAmt - interest)
           balPre == IF inGrace THEN balance + interest
                     ELSE Max(0, balance - scheduled)
           amts == prepayMap(calendarDate)
           pp == ApplyPrepayments(balPre, amts)
           row == Row(calendarDate, paymentAmt, scheduled + pp[1], interest, pp[2],
                      pp[1], 0, FALSE, Null, Null, FALSE, 0)
           paidOff == pp[2] <= 0
       IN /\ schedule' = IF paidOff
                         THEN WithCumulative(Append(schedule, row), 0, 0, 0)
                         ELSE Append(schedule, row)
          /\ hist' = Append(hist, Hist(IF inGrace THEN "grace" ELSE "payment",
                                       balance, balPre, amts, pp[1], pp[2],
                                       IF inGrace THEN 0 ELSE remainingPaymentMonths,
                                       paymentAmt, 0))
          /\ balance' = pp[2]
          /\ pc' = IF paidOff THEN "done" ELSE "loop"
    /\ calendarDate' = addMonths(calendarDate, 1)
    /\ i' = i + 1
    /\ UNCHANGED auxVars
    /\ UNCHANGED <<loan, deferralRemaining, deferralTotal, derived, income>>

-----------------------------------------------------------------------------
(* The consumers of a finished schedule *)

\* new Date(loan.purchaseDate): the purchase date at day precision
purchase == DayStamp(loan.purchaseDate[1], loan.purchaseDate[2])

\* r.loanDate >= purchase, r.loanDate being the first of the row's month
OwnedByConsumer(r) == DayStamp(r.loanDate, 1) >= purchase

\* monthDiff(d1, d2)
monthDiff(m1, m2) == m2 - m1

\* deriveLoansWithRoi: amortSchedule, the rows up to and including the first terminal one
RECURSIVE UpToTerminal(_)
UpToTerminal(rows) ==
    IF rows = <<>> THEN <<>>
    ELSE IF Head(rows).isTerminal THEN <<Head(rows)>>
    ELSE <<Head(rows)>> \o UpToTerminal(Tail(rows))

\* deriveLoansWithRoi: scheduleWithOwnership
RECURSIVE AttachOwnership(_)
AttachOwnership(rows) ==
    IF rows = <<>> THEN <<>>
    ELSE LET r == Head(rows)
             owned == OwnedByConsumer(r)
         IN <<[ row |-> r,
                isOwned |-> owned,
                ownershipMonthIndex |->
                    IF owned THEN monthDiff(loan.purchaseDate[1], r.loanDate) + 1 ELSE 0,
                ownershipDate |-> IF owned THEN r.loanDate ELSE Null ]>>
            \o AttachOwnership(Tail(rows))

\* deriveLoansWithRoi: cumSchedule, the owned rows with running totals
\* (no row of the scheduler carries feeThisMonth, so each fee is 0)
RECURSIVE CumSchedule(_, _, _)
CumSchedule(rows, cumP, cumI) ==
    IF rows = <<>> THEN <<>>
    ELSE LET r == Head(rows)
             p == cumP + r.row.principalPaid
             n == cumI + r.row.interest
         IN IF r.isOwned
            THEN <<[r EXCEPT !.row.cumPrincipal = p, !.row.cumInterest = n]
                      @@ [cumFees |-> 0]>>
                 \o CumSchedule(Tail(rows), p, n)
            ELSE CumSchedule(Tail(rows), cumP, cumI)

\* deriveLoansWithRoi: one ROI entry; amounts in 1/100 cent, roi as <<num, den>>
RoiEntry(r) ==
    LET realized == (r.row.cumPrincipal + r.row.cumInterest - r.cumFees) * 100
        unrealized == r.row.balance * LiquidationPct
        loanValue == realized + unrealized
    IN [ month |-> r.ownershipMonthIndex,
         date |-> r.row.loanDate,
         roi |-> <<loanValue - loan.purchasePrice * 100, loan.purchasePrice * 100>>,
         loanValue |-> loanValue,
         cumFees |-> r.cumFees,
         realized |-> realized,
         remainingBalance |-> r.row.balance,
         unrealized |-> unrealized,
         isTerminal |-> r.row.isTerminal ]

RECURSIVE RoiSeries(_)
RoiSeries(rows) ==
    IF rows = <<>> THEN <<>>
    ELSE IF Head(rows).isOwned THEN <<RoiEntry(Head(rows))>> \o RoiSeries(Tail(rows))
    ELSE RoiSeries(Tail(rows))

DeriveLoansWithRoi ==
    /\ pc = "done"
    /\ derived = NoResult
    /\ LET amortSchedule == UpToTerminal(schedule)
           scheduleWithOwnership == AttachOwnership(amortSchedule)
           cumSchedule == CumSchedule(scheduleWithOwnership, 0, 0)
       IN derived' = << [ amortSchedule |-> amortSchedule,
                          scheduleWithOwnership |-> scheduleWithOwnership,
                          cumSchedule |-> cumSchedule,
                          roiSeries |-> RoiSeries(cumSchedule) ] >>
    /\ UNCHANGED auxVars
    /\ UNCHANGED <<loan, pc, i, calendarDate, balance, deferralRemaining, deferralTotal,
                   schedule, hist, income>>

\* buildPortfolioViews: calcMonthlyExpectedIncome(targetMonthDate) for the one loan
RECURSIVE ExpectedIncome(_, _)
ExpectedIncome(rows, target) ==
    IF rows = <<>> THEN 0
    ELSE LET r == Head(rows)
         IN (IF r.loanDate = target /\ OwnedByConsumer(r) THEN r.payment ELSE 0)
            + ExpectedIncome(Tail(rows), target)

CalcMonthlyExpectedIncome ==
    /\ pc = "done"
    /\ \E target \in TargetMonths :
          income' = << [ target |-> target, amount |-> ExpectedIncome(schedule, target) ] >>
    /\ UNCHANGED auxVars
    /\ UNCHANGED <<loan, pc, i, calendarDate, balance, deferralRemaining, deferralTotal,
                   schedule, hist, derived>>

Next ==
    \/ LoopExit
    \/ DefaultMonth
    \/ DeferralMonth
    \/ NormalMonth
    \/ DeriveLoansWithRoi
    \/ CalcMonthlyExpectedIncome

Spec == Init /\ [][Next]_vars

-----------------------------------------------------------------------------
(* buildAmortSchedule alone, run to its return.  The loop is sequential code: *)
(* an iteration that can run does run, hence the weak fairness.              *)

NextSchedule ==
    \/ LoopExit
    \/ DefaultMonth
    \/ DeferralMonth
    \/ NormalMonth

\* loans with default and deferral events; a prepayment only ends a schedule earlier
MaxScheduleEvents == 2

ScheduleLoans ==
    { l \in Loans : /\ l.principal > 0
                    /\ l.purchaseDate = <<0, 1>>
                    /\ l.graceYears + l.termYears = 1
                    /\ Len(l.events) <= MaxScheduleEvents
                    /\ \A k \in 1..Len(l.events) : l.events[k].type # "prepayment" }

InitSchedule ==
    /\ SchedulerStart(ScheduleLoans)
    /\ own = OwnIdle
    /\ earn = EarnIdle
    /\ storage = StorageIdle
    /\ roi = RoiIdle

SpecSchedule == InitSchedule /\ [][NextSchedule]_vars /\ WF_vars(NextSchedule)

-----------------------------------------------------------------------------
(* buildAmortSchedule from its entry: the guards on loanStartDate and        *)
(* purchaseDate.  An unparseable date (empty, missing, not a date) is Null.  *)

DateLoans ==
    { [principal |-> Cents(100), rate |-> r, graceYears |-> 0, termYears |-> ty,
       startMonth |-> sm, purchaseDate |-> pd, purchasePrice |-> pp, events |-> <<>>] :
        r \in Rates, ty \in {0, 1}, sm \in {0, 1, Null},
        pd \in PurchaseDates \cup {<<Null, Null>>}, pp \in PurchasePrices }

\* part_007: start and purchase are both checked; the loop starts if both are dates
DateGuards ==
    /\ pc = "entry"
    /\ IF IsInvalidDate(loan.startMonth) \/ IsInvalidDate(loan.purchaseDate[1])
       THEN pc' = "thrown" /\ UNCHANGED <<calendarDate, balance>>
       ELSE pc' = "loop" /\ calendarDate' = loan.startMonth /\ balance' = loan.principal
    /\ UNCHANGED <<loan, i, deferralRemaining, deferralTotal, schedule, hist, derived, income, own, earn, roi, storage>>

\* loanEngine.js: only start is checked
DateGuardsStartOnly ==
    /\ pc = "entry"
    /\ IF IsInvalidDate(loan.startMonth)
       THEN pc' = "thrown" /\ UNCHANGED <<calendarDate, balance>>
       ELSE pc' = "loop" /\ calendarDate' = loan.startMonth /\ balance' = loan.principal
    /\ UNCHANGED <<loan, i, deferralRemaining, deferralTotal, schedule, hist, derived, income, own, earn, roi, storage>>

InitDates ==
    /\ loan \in DateLoans
    /\ pc = "entry"
    /\ i = 0
    /\ calendarDate = 0
    /\ balance = 0
    /\ deferralRemaining = 0
    /\ deferralTotal = 0
    /\ schedule = <<>>
    /\ hist = <<>>
    /\ derived = NoResult
    /\ income = NoResult
    /\ own = OwnIdle
    /\ earn = EarnIdle
    /\ storage = StorageIdle
    /\ roi = RoiIdle

NextDates ==
    \/ DateGuards
    \/ DateGuardsStartOnly
    \/ NormalMonth
    \/ LoopExit

SpecDates == InitDates /\ [][NextDates]_vars

-----------------------------------------------------------------------------
(* Earnings engine: buildEarningsSchedule and getCanonicalCurrentEarningsRow *)
(* (part_010), and the earned-to-date series of buildPortfolioViews.         *)
(* Amounts are in cents, as in the schedule's rows.                          *)

UpfrontFee == 15000
BalanceFeePer100000 == 125

\* +(balance * 0.00125).toFixed(2)
MonthlyBalanceFee(bal) == (bal * BalanceFeePer100000 + 50000) \div 100000

\* buildEarningsSchedule: normalize a row and accumulate it; cumP, cumI and cumF are
\* the cumulatives before the row
EarningsRow(row, cumP, cumI, cumF) ==
    LET monthsSinceStart == monthDiff(loan.startMonth, loan.purchaseDate[1])
        ownershipMonthIndex == row.monthIndex - monthsSinceStart
        isOwned == ownershipMonthIndex >= 1
        deferred == row.isDeferred = TRUE
        upfrontFeeThisMonth == IF isOwned /\ ownershipMonthIndex = 1 THEN UpfrontFee ELSE 0
        monthlyBalanceFee == IF isOwned /\ ~deferred /\ row.balance > 0
                             THEN MonthlyBalanceFee(row.balance) ELSE 0
        feeThisMonth == upfrontFeeThisMonth + monthlyBalanceFee
        earns == isOwned /\ ~deferred
        principalThisMonth == IF earns THEN Max(0, row.principalPaid - row.prepayment) ELSE 0
        interestThisMonth == IF earns THEN row.interest ELSE 0
        feesThisMonth == IF earns THEN feeThisMonth ELSE 0
        cumPrincipal == cumP + principalThisMonth
        cumInterest == cumI + interestThisMonth
        cumFees == cumF + feesThisMonth
    IN  [ monthIndex |-> row.monthIndex,
          contractualMonth |-> row.contractualMonth,
          loanDate |-> loan.startMonth + (row.monthIndex - 1),
          ownershipMonthIndex |-> ownershipMonthIndex,
          isOwned |-> isOwned,
          balance |-> row.balance,
          prepayment |-> row.prepayment,
          accruedInterest |-> row.accruedInterest,
          cumPrincipal |-> cumPrincipal,
          cumInterest |-> cumInterest,
          cumFees |-> cumFees,
          netEarnings |-> cumPrincipal + cumInterest - cumFees,
          monthlyPrincipal |-> cumPrincipal - cumP,
          monthlyInterest |-> cumInterest - cumI,
          monthlyFees |-> cumFees - cumF,
          monthlyNet |-> (cumPrincipal - cumP) + (cumInterest - cumI) - (cumFees - cumF),
          feeThisMonth |-> IF deferred THEN 0 ELSE feeThisMonth,
          interestPaid |-> IF deferred THEN 0 ELSE row.interest,
          principalPaid |-> IF deferred THEN 0 ELSE row.principalPaid,
          isDeferralMonth |-> deferred ]

RECURSIVE EarningsRows(_, _, _, _)
EarningsRows(rows, cumP, cumI, cumF) ==
    IF rows = <<>> THEN <<>>
    ELSE LET e == EarningsRow(Head(rows), cumP, cumI, cumF)
         IN  <<e>> \o EarningsRows(Tail(rows), e.cumPrincipal, e.cumInterest, e.cumFees)

RECURSIVE SortByLoanDate(_)
\* .sort((a, b) => a.loanDate - b.loanDate), a stable sort
SortByLoanDate(rows) ==
    IF rows = <<>> THEN <<>>
    ELSE LET rest == SortByLoanDate(Tail(rows))
             before == SelectSeq(rest, LAMBDA r : r.loanDate < Head(rows).loanDate)
             after == SelectSeq(rest, LAMBDA r : r.loanDate >= Head(rows).loanDate)
         IN  before \o <<Head(rows)>> \o after

buildEarningsSchedule(amortSchedule) == SortByLoanDate(EarningsRows(amortSchedule, 0, 0, 0))

\* buildPortfolioViews: earnedSeries, over the rows with loanDate >= purchase (no row
\* of the scheduler carries feeThisMonth, so each fee is 0)
RECURSIVE EarnedSeries(_, _, _)
EarnedSeries(rows, cumP, cumI) ==
    IF rows = <<>> THEN <<>>
    ELSE LET r == Head(rows)
             cumPrincipal == cumP + r.principalPaid
             cumInterest == cumI + r.interest
         IN  IF ~OwnedByConsumer(r) THEN EarnedSeries(Tail(rows), cumP, cumI)
             ELSE << [ monthIndex |-> r.monthIndex,
                       loanDate |-> r.loanDate,
                       isDeferred |-> r.isDeferred = TRUE,
                       principalPaid |-> r.principalPaid,
                       interest |-> r.interest,
                       balance |-> r.balance,
                       cumPrincipal |-> cumPrincipal,
                       cumInterest |-> cumInterest,
                       cumFees |-> 0,
                       netEarnings |-> cumPrincipal + cumInterest,
                       monthlyPrincipal |-> cumPrincipal - cumP,
                       monthlyInterest |-> cumInterest - cumI,
                       monthlyFees |-> 0,
                       monthlyNet |-> (cumPrincipal - cumP) + (cumInterest - cumI) ] >>
                  \o EarnedSeries(Tail(rows), cumPrincipal, cumInterest)

RECURSIVE FindMonth(_, _)
\* earningsSchedule.find(r => r.loanDate is in month m): the first such row, if any
FindMonth(rows, m) ==
    IF rows = <<>> THEN Undefined
    ELSE IF Head(rows).loanDate = m THEN Some(Head(rows))
    ELSE FindMonth(Tail(rows), m)

\* a variant that never looks for today's month
getCanonicalCurrentEarningsRowNoMatch(earningsSchedule, today) ==
    IF earningsSchedule = Undefined \/ Len(earningsSchedule[1]) = 0 THEN Undefined
    ELSE LET rows == earningsSchedule[1]
             owned == SelectSeq(rows, LAMBDA r : r.isOwned)
         IN  IF owned # <<>> THEN Some(owned[Len(owned)])
             ELSE Some(rows[Len(rows)])

\* getCanonicalCurrentEarningsRow(earningsSchedule, today); Undefined is null
getCanonicalCurrentEarningsRow(earningsSchedule, today) ==
    IF earningsSchedule = Undefined \/ Len(earningsSchedule[1]) = 0 THEN Undefined
    ELSE LET rows == earningsSchedule[1]
             match == FindMonth(rows, today)
             owned == SelectSeq(rows, LAMBDA r : r.isOwned)
         IN  IF match # Undefined THEN match
             ELSE IF owned # <<>> THEN Some(owned[Len(owned)])
             ELSE Some(rows[Len(rows)])

\* the months "today" falls in: inside every schedule, and after every schedule
TodayMonths == {1, 3 * MonthsPerYear}

BuildEarningsSchedule ==
    /\ pc = "done"
    /\ earn.schedule = Undefined
    /\ earn' = [earn EXCEPT !.schedule = Some(buildEarningsSchedule(schedule))]
    /\ UNCHANGED <<loan, pc, i, calendarDate, balance, deferralRemaining, deferralTotal, schedule, hist, derived, income, own, roi, storage>>

BuildEarnedSeries ==
    /\ pc = "done"
    /\ earn.series = Undefined
    /\ earn' = [earn EXCEPT !.series = Some(EarnedSeries(schedule, 0, 0))]
    /\ UNCHANGED <<loan, pc, i, calendarDate, balance, deferralRemaining, deferralTotal, schedule, hist, derived, income, own, roi, storage>>

\* the argument is what the caller holds: the schedule built for the loan (not an
\* array before it is built), or the empty schedule of a loan without rows
GetCanonicalCurrentEarningsRow ==
    /\ pc = "done"
    /\ earn.current = Undefined
    /\ \E arg \in {earn.schedule, Some(<<>>)}, today \in TodayMonths :
          earn' = [earn EXCEPT !.current =
                      Some([ arg |-> arg, today |-> today,
                             row |-> getCanonicalCurrentEarningsRow(arg, today) ])]
    /\ UNCHANGED <<loan, pc, i, calendarDate, balance, deferralRemaining, deferralTotal, schedule, hist, derived, income, own, roi, storage>>

InitEarnings ==
    /\ SchedulerStart({ l \in Loans : l.principal > 0 })
    /\ own = OwnIdle
    /\ earn = EarnIdle
    /\ storage = StorageIdle
    /\ roi = RoiIdle

NextEarnings ==
    \/ LoopExit
    \/ DefaultMonth
    \/ DeferralMonth
    \/ NormalMonth
    \/ BuildEarningsSchedule
    \/ BuildEarnedSeries
    \/ GetCanonicalCurrentEarningsRow

SpecEarnings == InitEarnings /\ [][NextEarnings]_vars

-----------------------------------------------------------------------------
(* ROI engine over a portfolio: deriveLoansWithRoi maps over the loans, each *)
(* scheduled by buildAmortSchedule; buildProjectedRoiTimeline and computeKPIs *)
(* take the derived loans.  A ratio is the pair <<numerator, denominator>>;  *)
(* a zero denominator stands for the Infinity or NaN of the division.        *)

MaxLoans == 2

\* the loans of the portfolio; ownershipPct (percent) is the share the user holds
RoiLoans ==
    { [principal |-> Cents(100), rate |-> r, graceYears |-> 0, termYears |-> 1,
       startMonth |-> 0, purchaseDate |-> pd, purchasePrice |-> pp,
       events |-> ev, ownershipPct |-> op] :
        r \in Rates, pd \in PurchaseDates \cup {<<1, 1>>}, pp \in {0, 50} \cup PurchasePrices,
        ev \in {<<>>, <<DefaultEvent(2, Cents(30))>>}, op \in {50, 100} }
    \cup { [principal |-> Cents(100), rate |-> <<1, 1>>, graceYears |-> 1, termYears |-> 0,
            startMonth |-> 0, purchaseDate |-> <<0, 1>>, purchasePrice |-> 50,
            events |-> <<>>, ownershipPct |-> 100] }

\* deriveLoansWithRoi: the loan object returned for the loan just scheduled
DerivedLoan == [ loan |-> loan, amort |-> derived[1].amortSchedule,
                 cumSchedule |-> derived[1].cumSchedule,
                 roiSeries |-> derived[1].roiSeries ]

\* deriveLoansWithRoi moves on: the derived loan joins the result and either the
\* next loan of the array is scheduled or the map is over
NextLoanFrom(ls) ==
    /\ pc = "done"
    /\ derived # NoResult
    /\ Len(roi.loans) < MaxLoans
    /\ roi' = [roi EXCEPT !.loans = Append(@, DerivedLoan)]
    /\ \/ /\ Len(roi.loans) + 1 < MaxLoans
          /\ loan' \in ls
          /\ pc' = "loop"
          /\ balance' = loan'.principal
          /\ calendarDate' = loan'.startMonth
       \/ /\ pc' = "idle"
          /\ UNCHANGED <<loan, balance, calendarDate>>
    /\ i' = 0
    /\ deferralRemaining' = 0
    /\ deferralTotal' = 0
    /\ schedule' = <<>>
    /\ hist' = <<>>
    /\ derived' = NoResult
    /\ UNCHANGED <<income, own, earn, storage>>

NextLoan == NextLoanFrom(RoiLoans)

SetMin(S) == CHOOSE x \in S : \A y \in S : x <= y
SetMax(S) == CHOOSE x \in S : \A y \in S : x >= y

\* buildProjectedRoiTimeline: dates, the months from the earliest purchase to the
\* latest maturity (purchase date plus the loan's months)
TimelineMonths(loans) ==
    LET ks == 1..Len(loans)
        earliestPurchase == SetMin({ loans[k].loan.purchaseDate[1] : k \in ks })
        latestMaturity == SetMax({ loans[k].loan.purchaseDate[1]
                                     + (loans[k].loan.termYears + loans[k].loan.graceYears)
                                       * MonthsPerYear : k \in ks })
    IN  [ j \in 1..(latestMaturity - earliestPurchase + 1) |-> earliestPurchase + j - 1 ]

\* buildProjectedRoiTimeline: the roi of a cumSchedule row, guarded
TimelineRoi(r, purchasePrice) ==
    LET realized == (r.row.cumPrincipal + r.row.cumInterest - r.cumFees) * 100
        unrealized == r.row.balance * LiquidationPct
        loanValue == realized + unrealized
    IN  IF purchasePrice # 0
        THEN <<loanValue - purchasePrice * 100, purchasePrice * 100>>
        ELSE <<0, 1>>

\* buildProjectedRoiTimeline: roiMap, from the month of an owned cumSchedule row to
\* its roi
RoiMap(l) ==
    LET cs == l.cumSchedule
        owned == { k \in 1..Len(cs) : cs[k].isOwned }
        keys == { cs[k].row.loanDate : k \in owned }
    IN  [ m \in keys |->
            TimelineRoi(cs[SetMax({ k \in owned : cs[k].row.loanDate = m })],
                        l.loan.purchasePrice) ]

RECURSIVE LoanData(_, _, _, _)
\* buildProjectedRoiTimeline: data of one loan, over the months left, lastKnownROI
\* being carried along; null (Undefined) before the purchase date
LoanData(months, l, roiMap, lastKnownROI) ==
    IF months = <<>> THEN <<>>
    ELSE LET date == Head(months)
             before == DayStamp(date, 1) < DayStamp(l.loan.purchaseDate[1], l.loan.purchaseDate[2])
             known == IF ~before /\ date \in DOMAIN roiMap THEN roiMap[date] ELSE lastKnownROI
         IN  << [date |-> date, y |-> IF before THEN Undefined ELSE Some(known)] >>
             \o LoanData(Tail(months), l, roiMap, known)

\* buildProjectedRoiTimeline: perLoanSeries[idx].data
PerLoanData(l, months) ==
    LET roiMap == RoiMap(l)
        firstRoiValue == IF DOMAIN roiMap # {} THEN roiMap[SetMin(DOMAIN roiMap)] ELSE <<0, 1>>
    IN  LoanData(months, l, roiMap, firstRoiValue)

RECURSIVE SumOver(_, _)
\* the sum of f over the indices 1..n
SumOver(f, n) == IF n = 0 THEN 0 ELSE f[n] + SumOver(f, n - 1)

\* loans.reduce((s, l) => s + safeNum(l?.purchasePrice), 0)
TotalInvested(loans) == SumOver([ k \in 1..Len(loans) |-> loans[k].loan.purchasePrice ], Len(loans))

\* roi * purchasePrice in hundredths: the roi of a loan is over purchasePrice * 100
WeightedTerm(y, purchasePrice) == IF purchasePrice = 0 THEN 0 ELSE y[1]

\* buildProjectedRoiTimeline: weightedSeries[j].y
WeightedY(loans, perLoan, j) ==
    IF TotalInvested(loans) = 0 THEN <<0, 1>>
    ELSE << SumOver([ k \in 1..Len(loans) |->
                        IF perLoan[k][j].y # Undefined
                        THEN WeightedTerm(perLoan[k][j].y[1], loans[k].loan.purchasePrice)
                        ELSE 0 ], Len(loans)),
            100 * TotalInvested(loans) >>

buildProjectedRoiTimeline(loans) ==
    LET dates == TimelineMonths(loans)
        perLoanSeries == [ k \in 1..Len(loans) |-> PerLoanData(loans[k], dates) ]
    IN  [ dates |-> dates,
          perLoanSeries |-> perLoanSeries,
          weightedSeries |-> [ j \in 1..Len(dates) |->
                                 [date |-> dates[j], y |-> WeightedY(loans, perLoanSeries, j)] ] ]

\* getRoiEntryAsOfMonth: the last roiSeries entry dated in or before the month
getRoiEntryAsOfMonth(l, month) ==
    LET upTo == SelectSeq(l.roiSeries, LAMBDA e : e.date <= month)
    IN  IF upTo = <<>> THEN Undefined ELSE Some(upTo[Len(upTo)])

\* the weighted sum of the rois picked for the loans, over totalInvested; a roi that
\* is Infinity or NaN (zero denominator) makes the sum NaN
WeightedRoi(loans, picked) ==
    IF TotalInvested(loans) = 0 THEN <<0, 1>>
    ELSE IF \E k \in 1..Len(loans) : picked[k] # Undefined /\ picked[k][1].roi[2] = 0
    THEN <<0, 0>>
    ELSE << SumOver([ k \in 1..Len(loans) |->
                        IF picked[k] # Undefined
                        THEN WeightedTerm(picked[k][1].roi, loans[k].loan.purchasePrice)
                        ELSE 0 ], Len(loans)),
            100 * TotalInvested(loans) >>

\* computeKPIs: principal paid on owned rows up to the month, of one loan
RecoveredPrincipal(l, asOfMonth) ==
    SumSeq([ k \in 1..Len(l.amort) |->
               IF l.amort[k].isOwned /\ l.amort[k].loanDate <= asOfMonth
               THEN l.amort[k].principalPaid ELSE 0 ])

computeKPIs(loans, asOfMonth) ==
    LET totalInvested == TotalInvested(loans)
        recovered == SumOver([ k \in 1..Len(loans) |-> RecoveredPrincipal(loans[k], asOfMonth) ],
                             Len(loans))
    IN  IF totalInvested = 0
        THEN [ totalInvested |-> 0, weightedROI |-> <<0, 1>>, projectedWeightedROI |-> <<0, 1>>,
               capitalRecoveredAmount |-> 0, capitalRecoveryPct |-> <<0, 1>> ]
        ELSE [ totalInvested |-> totalInvested,
               weightedROI |->
                   WeightedRoi(loans, [ k \in 1..Len(loans) |->
                                          getRoiEntryAsOfMonth(loans[k], asOfMonth) ]),
               projectedWeightedROI |->
                   WeightedRoi(loans, [ k \in 1..Len(loans) |->
                                          IF loans[k].roiSeries = <<>> THEN Undefined
                                          ELSE Some(loans[k].roiSeries[Len(loans[k].roiSeries)]) ]),
               capitalRecoveredAmount |-> recovered,
               capitalRecoveryPct |-> <<recovered, totalInvested>> ]

BuildProjectedRoiTimeline ==
    /\ pc = "idle"
    /\ roi.loans # <<>>
    /\ roi.timeline = Undefined
    /\ roi' = [roi EXCEPT !.timeline = Some(buildProjectedRoiTimeline(roi.loans))]
    /\ UNCHANGED <<loan, pc, i, calendarDate, balance, deferralRemaining, deferralTotal, schedule, hist, derived, income, own, earn, storage>>

ComputeKPIs ==
    /\ pc = "idle"
    /\ roi.loans # <<>>
    /\ roi.kpis = Undefined
    /\ \E asOfMonth \in TargetMonths :
          roi' = [roi EXCEPT !.kpis = Some([asOfMonth |-> asOfMonth] @@ computeKPIs(roi.loans, asOfMonth))]
    /\ UNCHANGED <<loan, pc, i, calendarDate, balance, deferralRemaining, deferralTotal, schedule, hist, derived, income, own, earn, storage>>

InitRoi ==
    /\ SchedulerStart(RoiLoans)
    /\ own = OwnIdle
    /\ earn = EarnIdle
    /\ storage = StorageIdle
    /\ roi = RoiIdle

NextRoi ==
    \/ LoopExit
    \/ DefaultMonth
    \/ NormalMonth
    \/ DeriveLoansWithRoi
    \/ NextLoan
    \/ BuildProjectedRoiTimeline
    \/ ComputeKPIs

SpecRoi == InitRoi /\ [][NextRoi]_vars

-----------------------------------------------------------------------------
(* attachSchedules / deriveLoansWithRoi: loans.map(loan => ... buildAmortSchedule  *)
(* (loan) ...) over an array that may hold loans with unparseable dates.  There is *)
(* no try around the call: what buildAmortSchedule throws leaves map.            *)

BatchLoans ==
    { l \in DateLoans : l.rate = <<0, 1>> /\ l.startMonth # 1 /\ l.purchaseDate # <<2, 15>> }

\* the arrays of MaxLoans loans
BatchArrays == [1..MaxLoans -> BatchLoans]

\* the callback returns the loan with its schedule; map goes on to the next loan, or
\* returns the array when there is none
AttachNextSchedule ==
    /\ pc = "done"
    /\ roi' = [roi EXCEPT !.loans = Append(@, [loan |-> loan, schedule |-> schedule])]
    /\ IF Len(roi.loans) + 1 < Len(roi.formattedLoans)
       THEN loan' = roi.formattedLoans[Len(roi.loans) + 2] /\ pc' = "entry"
       ELSE pc' = "returned" /\ UNCHANGED loan
    /\ i' = 0
    /\ calendarDate' = 0
    /\ balance' = 0
    /\ schedule' = <<>>
    /\ hist' = <<>>
    /\ UNCHANGED <<deferralRemaining, deferralTotal, derived, income, own, earn, storage>>

\* buildAmortSchedule threw: the exception leaves map and the caller gets no array
AttachSchedulesThrows ==
    /\ pc = "thrown"
    /\ pc' = "aborted"
    /\ roi' = [roi EXCEPT !.loans = <<>>]
    /\ UNCHANGED <<loan, i, calendarDate, balance, deferralRemaining, deferralTotal, schedule, hist, derived, income, own, earn, storage>>

InitBatch ==
    /\ \E formattedLoans \in BatchArrays :
          /\ loan = formattedLoans[1]
          /\ roi = [ formattedLoans |-> formattedLoans, loans |-> <<>>,
                     timeline |-> Undefined, kpis |-> Undefined, tpv |-> Undefined ]
    /\ pc = "entry"
    /\ i = 0
    /\ calendarDate = 0
    /\ balance = 0
    /\ deferralRemaining = 0
    /\ deferralTotal = 0
    /\ schedule = <<>>
    /\ hist = <<>>
    /\ derived = NoResult
    /\ income = NoResult
    /\ own = OwnIdle
    /\ earn = EarnIdle
    /\ storage = StorageIdle

NextBatch ==
    \/ DateGuards
    \/ DateGuardsStartOnly
    \/ NormalMonth
    \/ LoopExit
    \/ AttachNextSchedule
    \/ AttachSchedulesThrows

SpecBatch == InitBatch /\ [][NextBatch]_vars

-----------------------------------------------------------------------------
(* TPV engine (worker.js): buildLoanTPVTimeline and buildPortfolioTPVSeries,  *)
(* over loans that carry the schedule buildAmortSchedule produced for them.  *)

\* the loans of the TPV portfolio: with and without grace, deferral and prepayment
TpvLoans ==
    { [principal |-> Cents(100), rate |-> <<1, 1>>, graceYears |-> t[1], termYears |-> t[2],
       startMonth |-> 0, purchaseDate |-> pd, purchasePrice |-> pp,
       events |-> ev, ownershipPct |-> 100] :
        t \in {<<0, 1>>, <<1, 1>>, <<1, 0>>}, pd \in PurchaseDates, pp \in PurchasePrices,
        ev \in {<<>>, <<DeferralEvent(2, 2), PrepayEvent(3, Cents(20))>>} }

NextTpvLoan == NextLoanFrom(TpvLoans)

RECURSIVE LoanTPVRows(_, _, _, _)
\* buildLoanTPVTimeline: the rows for the amortization rows left, cumPrincipal and
\* accruedInterestGrace being the running aggregates
LoanTPVRows(rows, purchasePrice, cumPrincipal, accruedInterestGrace) ==
    IF rows = <<>> THEN <<>>
    ELSE LET row == Head(rows)
             accrued == IF row.isDeferred /\ row.interest # 0
                        THEN accruedInterestGrace + row.interest ELSE accruedInterestGrace
             cum == IF ~row.isDeferred /\ row.principalPaid # 0
                    THEN cumPrincipal + row.principalPaid ELSE cumPrincipal
         IN  IF ~row.isOwned
             THEN LoanTPVRows(Tail(rows), purchasePrice, cumPrincipal, accruedInterestGrace)
             ELSE << [ monthKey |-> row.loanDate,
                       value |-> purchasePrice + accrued + cum,
                       breakdown |-> [ purchasePrice |-> purchasePrice,
                                       accruedInterestGrace |-> accrued,
                                       cumulativePrincipal |-> cum ] ] >>
                  \o LoanTPVRows(Tail(rows), purchasePrice, cum, accrued)

buildLoanTPVTimeline(l) == LoanTPVRows(l.amort, l.loan.purchasePrice, 0, 0)

RECURSIVE SortedMonths(_)
\* Array.from(monthSet).sort()
SortedMonths(S) == IF S = {} THEN <<>> ELSE <<SetMin(S)>> \o SortedMonths(S \ {SetMin(S)})

\* buildPortfolioTPVSeries; a loan is keyed by its place in the array
buildPortfolioTPVSeries(loans) ==
    LET rowsOf == [ k \in 1..Len(loans) |-> buildLoanTPVTimeline(loans[k]) ]
        kept == { k \in 1..Len(loans) : rowsOf[k] # <<>> }
        months == SortedMonths(UNION { { rowsOf[k][j].monthKey : j \in 1..Len(rowsOf[k]) } : k \in kept })
        valueAt(k, m) == LET js == { j \in 1..Len(rowsOf[k]) : rowsOf[k][j].monthKey = m }
                         IN  IF js = {} THEN 0 ELSE rowsOf[k][SetMax(js)].value
        values == [ k \in kept |-> [ j \in 1..Len(months) |-> valueAt(k, months[j]) ] ]
    IN  [ timelines |-> rowsOf,
          months |-> months,
          seriesByLoan |-> values,
          totalsByMonth |-> [ j \in 1..Len(months) |->
                                SumOver([ k \in 1..Len(loans) |->
                                            IF k \in kept THEN values[k][j] ELSE 0 ], Len(loans)) ] ]

BuildPortfolioTPVSeries ==
    /\ pc = "idle"
    /\ roi.loans # <<>>
    /\ roi.tpv = Undefined
    /\ roi' = [roi EXCEPT !.tpv = Some(buildPortfolioTPVSeries(roi.loans))]
    /\ UNCHANGED <<loan, pc, i, calendarDate, balance, deferralRemaining, deferralTotal, schedule, hist, derived, income, own, earn, storage>>

InitTpv ==
    /\ SchedulerStart(TpvLoans)
    /\ own = OwnIdle
    /\ earn = EarnIdle
    /\ storage = StorageIdle
    /\ roi = RoiIdle

NextTpv ==
    \/ LoopExit
    \/ DeferralMonth
    \/ NormalMonth
    \/ DeriveLoansWithRoi
    \/ NextTpvLoan
    \/ BuildPortfolioTPVSeries

SpecTpv == InitTpv /\ [][NextTpv]_vars

-----------------------------------------------------------------------------
(* The system clock.  buildPortfolioViews takes the loans only and reads       *)
(* new Date() itself; buildLoanTPVTimeline defaults its today parameter to     *)
(* getStandardToday().  Each is run MaxRuns times on the same loan and         *)
(* schedule, at any wall-clock months; income and roi.tpv hold the outputs of  *)
(* the runs, in order.                                                         *)

MaxRuns == 2
forwardMonths == 24

\* the months the system clock may show when a run is made
WallClock == {0, 1, 2}

\* new Date() with setHours(0, 0, 0, 0), at month precision
getStandardToday(clock) == clock

ClockLoans == { l \in Loans : l.principal > 0 /\ Len(l.events) <= 1 }

\* buildPortfolioViews: monthlyIncomeKpi and the 24-month forward projection
BuildPortfolioViews ==
    /\ pc = "done"
    /\ Len(income) < MaxRuns
    /\ \E clock \in WallClock :
          LET TODAY == clock
              nextMonthDate == addMonths(TODAY, 1)
          IN  income' = Append(income,
                  [ monthlyIncomeKpi |-> ExpectedIncome(schedule, nextMonthDate),
                    incomePayments |-> [ k \in 1..forwardMonths |->
                        ExpectedIncome(schedule, addMonths(nextMonthDate, k - 1)) ] ])
    /\ UNCHANGED auxVars
    /\ UNCHANGED <<loan, pc, i, calendarDate, balance, deferralRemaining, deferralTotal, schedule, hist, derived>>

\* buildLoanTPVTimeline({ loan, amortSchedule }) with today left to its default
BuildLoanTPVTimeline ==
    /\ pc = "done"
    /\ Len(roi.tpv) < MaxRuns
    /\ \E clock \in WallClock :
          LET today == getStandardToday(clock)
          IN  roi' = [roi EXCEPT !.tpv =
                         Append(@, buildLoanTPVTimeline([loan |-> loan, amort |-> schedule]))]
    /\ UNCHANGED <<loan, pc, i, calendarDate, balance, deferralRemaining, deferralTotal, schedule, hist, derived, income, own, earn, storage>>

InitClock ==
    /\ SchedulerStart(ClockLoans)
    /\ own = OwnIdle
    /\ earn = EarnIdle
    /\ storage = StorageIdle
    /\ roi = RoiIdle

NextClock ==
    \/ LoopExit
    \/ DefaultMonth
    \/ DeferralMonth
    \/ NormalMonth
    \/ BuildPortfolioViews
    \/ BuildLoanTPVTimeline

SpecClock == InitClock /\ [][NextClock]_vars

-----------------------------------------------------------------------------
(* Normalization of a raw loan record: loadLoans (loanEngine.js) and the       *)
(* storage worker's normalizeLoans (part_000).  A JavaScript value is a record *)
(* with its kind; loan holds the raw record and derived the normalized one.    *)

JsUndefined == [kind |-> "undefined"]
JsNaN == [kind |-> "NaN"]
JsNumber(n) == [kind |-> "number", n |-> n]
JsString(numeric, n) == [kind |-> "string", numeric |-> numeric, n |-> n]

\* Number(v): a number is itself, a numeric string its number, undefined and any
\* other string NaN
Number(v) ==
    IF v.kind = "number" THEN v
    ELSE IF v.kind = "string" /\ v.numeric THEN JsNumber(v.n)
    ELSE JsNaN

\* a != null ? a : b, and a ?? b
Coalesce(a, b) == IF a.kind # "undefined" THEN a ELSE b

\* what a raw field may hold: nothing, a positive or a negative number, text
RawValues == { JsUndefined, JsNumber(5), JsNumber(-3), JsString(FALSE, 0), JsString(TRUE, -2) }
RawRates == { JsUndefined, JsNumber(5), JsNumber(-3), JsString(FALSE, 0) }

RawLoans ==
    { [principal |-> p, purchasePrice |-> pp, rate |-> r, termYears |-> ty, graceYears |-> gy] :
        p \in RawValues, pp \in RawValues, r \in RawRates, ty \in RawValues, gy \in RawRates }

\* loadLoans: the normalized numeric fields
LoadLoans ==
    /\ pc = "raw"
    /\ LET principal == Number(Coalesce(loan.principal, Coalesce(loan.purchasePrice, JsNumber(0))))
       IN  derived' = << [ principal |-> principal,
                           purchasePrice |-> Number(Coalesce(loan.purchasePrice, principal)),
                           nominalRate |-> Number(Coalesce(loan.rate, JsNumber(0))),
                           termYears |-> Number(Coalesce(loan.termYears, JsNumber(10))),
                           graceYears |-> Number(Coalesce(loan.graceYears, JsNumber(0))) ] >>
    /\ pc' = "normalized"
    /\ UNCHANGED <<loan, i, calendarDate, balance, deferralRemaining, deferralTotal, schedule, hist, income, own, earn, roi, storage>>

\* normalizeLoans: the normalized numeric fields (the record has no principal)
NormalizeLoans ==
    /\ pc = "raw"
    /\ derived' = << [ purchasePrice |-> Number(Coalesce(loan.purchasePrice, Coalesce(loan.principal, JsNumber(0)))),
                       nominalRate |-> Number(Coalesce(loan.rate, JsNumber(0))),
                       termYears |-> Number(Coalesce(loan.termYears, JsNumber(0))),
                       graceYears |-> Number(Coalesce(loan.graceYears, JsNumber(0))) ] >>
    /\ pc' = "normalized"
    /\ UNCHANGED <<loan, i, calendarDate, balance, deferralRemaining, deferralTotal, schedule, hist, income, own, earn, roi, storage>>

InitNormalize ==
    /\ loan \in RawLoans
    /\ pc = "raw"
    /\ i = 0
    /\ calendarDate = 0
    /\ balance = 0
    /\ deferralRemaining = 0
    /\ deferralTotal = 0
    /\ schedule = <<>>
    /\ hist = <<>>
    /\ derived = NoResult
    /\ income = NoResult
    /\ own = OwnIdle
    /\ earn = EarnIdle
    /\ storage = StorageIdle
    /\ roi = RoiIdle

NextNormalize ==
    \/ LoadLoans
    \/ NormalizeLoans

SpecNormalize == InitNormalize /\ [][NextNormalize]_vars

-----------------------------------------------------------------------------
(* Ownership engine: normalizeOwnership, in each variant the repository      *)
(* holds.  Percents are integers in hundredths of a percent; an absent       *)
(* (undefined) field is the empty tuple and a present one a 1-tuple.         *)

MARKET_USER == "Market"
PAGE_USER == "page"

\* a percent value, in hundredths of a percent
Pct(p) == p * 100
Hundred == Pct(100)

Allocation(user, percent) == [user |-> user, percent |-> percent]

RECURSIVE SelectNonMarket(_)
\* allocations.filter(a => a.user !== MARKET_USER)
SelectNonMarket(allocs) ==
    IF allocs = <<>> THEN <<>>
    ELSE IF Head(allocs).user # MARKET_USER
         THEN <<Head(allocs)>> \o SelectNonMarket(Tail(allocs))
         ELSE SelectNonMarket(Tail(allocs))

RECURSIVE SumPercent(_)
\* .reduce((s, a) => s + a.percent, 0)
SumPercent(allocs) ==
    IF allocs = <<>> THEN 0 ELSE Head(allocs).percent + SumPercent(Tail(allocs))

HasUser(allocs, user) == \E k \in 1..Len(allocs) : allocs[k].user = user

\* the Market remainder is recomputed and Market moved to the end
RebalanceMarket(allocs) ==
    LET assigned == SumPercent(SelectNonMarket(allocs))
        marketPct == Max(0, Hundred - assigned)
    IN  SelectNonMarket(allocs) \o <<Allocation(MARKET_USER, marketPct)>>

\* ownershipEngine.js, first definition: returns early when allocations exist,
\* else builds them from ownershipPct (a fraction, in hundredths)
NormalizeFromOwnershipPct(l) ==
    IF l.ownership # Undefined /\ Len(l.ownership[1]) > 0 THEN l
    ELSE LET pct == IF l.ownershipPct # Undefined THEN l.ownershipPct[1] ELSE 100
         IN  [l EXCEPT !.ownership =
                 Some(<< Allocation(PAGE_USER, pct * 100),
                         Allocation(MARKET_USER, Max(0, Hundred - pct * 100)) >>)]

\* ownershipEngine.js, second definition (user = null by default); ownershipPct
\* is read as a percent here
NormalizeForUser(l, user) ==
    LET allocs0 == IF l.ownership = Undefined THEN <<>> ELSE l.ownership[1]
        percent == IF l.ownershipPct # Undefined THEN l.ownershipPct[1] ELSE Hundred
        allocs1 == IF user # Undefined /\ ~HasUser(allocs0, user[1])
                   THEN Append(allocs0, Allocation(user[1], percent))
                   ELSE allocs0
    IN  [l EXCEPT !.ownership = Some(RebalanceMarket(allocs1))]

\* part_008, second definition: as above, the missing user gets 100 percent
NormalizeForUserFull(l, user) ==
    LET allocs0 == IF l.ownership = Undefined THEN <<>> ELSE l.ownership[1]
        allocs1 == IF user # Undefined /\ ~HasUser(allocs0, user[1])
                   THEN Append(allocs0, Allocation(user[1], Hundred))
                   ELSE allocs0
    IN  [l EXCEPT !.ownership = Some(RebalanceMarket(allocs1))]

\* part_008, first definition: returns right after creating the ownership,
\* otherwise rebalances and makes sure loan.ownerships holds the page user
NormalizeWithOwnerships(l) ==
    IF l.ownership = Undefined
    THEN [l EXCEPT !.ownership = Some(<<Allocation(MARKET_USER, Hundred)>>)]
    ELSE LET owners0 == IF l.ownerships = Undefined THEN <<>> ELSE l.ownerships[1]
             pct == IF l.ownershipPct # Undefined THEN l.ownershipPct[1] ELSE 100
             owners1 == IF \E k \in 1..Len(owners0) : owners0[k].user = PAGE_USER
                        THEN owners0
                        ELSE Append(owners0, [user |-> PAGE_USER, pct |-> pct])
         IN  [l EXCEPT !.ownership = Some(RebalanceMarket(l.ownership[1])),
                       !.ownerships = Some(owners1)]

RECURSIVE LotsOf(_, _)
\* one lot per non-Market allocation
LotsOf(allocs, pricePaid) ==
    IF allocs = <<>> THEN <<>>
    ELSE << [user |-> Head(allocs).user, pct |-> Head(allocs).percent,
             pricePaid |-> pricePaid] >> \o LotsOf(Tail(allocs), pricePaid)

\* part_009: rebalances, then derives ownershipLots unless they exist
NormalizeWithLots(l) ==
    LET allocs0 == IF l.ownership = Undefined
                   THEN <<Allocation(MARKET_USER, Hundred)>> ELSE l.ownership[1]
        allocs1 == RebalanceMarket(allocs0)
    IN  [l EXCEPT !.ownership = Some(allocs1),
                  !.ownershipLots = IF l.ownershipLots # Undefined THEN @
                                    ELSE Some(LotsOf(SelectNonMarket(allocs1), l.purchasePrice))]

Variants == {"fromOwnershipPct", "forUser", "forUserFull", "withOwnerships", "withLots"}

normalizeOwnership(variant, l, user) ==
    CASE variant = "fromOwnershipPct" -> NormalizeFromOwnershipPct(l)
      [] variant = "forUser" -> NormalizeForUser(l, user)
      [] variant = "forUserFull" -> NormalizeForUserFull(l, user)
      [] variant = "withOwnerships" -> NormalizeWithOwnerships(l)
      [] variant = "withLots" -> NormalizeWithLots(l)

AllocationLists ==
    { <<>>,
      <<Allocation("ann", Pct(60))>>,
      <<Allocation(MARKET_USER, Pct(30)), Allocation("ann", Pct(50))>>,
      <<Allocation("ann", Pct(50)), Allocation(MARKET_USER, Pct(50))>>,
      <<Allocation("ann", Pct(25)), Allocation(MARKET_USER, Pct(10)), Allocation("bob", Pct(25))>>,
      <<Allocation("ann", Pct(60)), Allocation("bob", Pct(60))>> }

OwnershipLoans ==
    [ ownership : {Undefined} \cup { Some(a) : a \in AllocationLists },
      ownershipPct : {Undefined, Some(50), Some(100)},
      ownerships : {Undefined},
      ownershipLots : {Undefined},
      purchasePrice : PurchasePrices ]

MaxCalls == 2

\* one call normalizeOwnership(loan, user) on the loan object
NormalizeOwnership ==
    /\ own.loan # Undefined
    /\ own.calls < MaxCalls
    /\ LET after == normalizeOwnership(own.variant, own.loan[1], own.user)
       IN  own' = [own EXCEPT !.loan = Some(after),
                              !.calls = @ + 1,
                              !.first = IF own.calls = 0 THEN Some(after) ELSE @]
    /\ UNCHANGED <<loan, pc, i, calendarDate, balance, deferralRemaining, deferralTotal, schedule, hist, derived, income, earn, roi, storage>>

\* the scheduler has no loan to work on
SchedulerIdle ==
    /\ loan = [ principal |-> 0, rate |-> <<0, 1>>, graceYears |-> 0, termYears |-> 0,
                startMonth |-> 0, purchaseDate |-> <<0, 1>>, purchasePrice |-> 0,
                events |-> <<>> ]
    /\ pc = "idle"
    /\ i = 0
    /\ calendarDate = 0
    /\ balance = 0
    /\ deferralRemaining = 0
    /\ deferralTotal = 0
    /\ schedule = <<>>
    /\ hist = <<>>
    /\ derived = NoResult
    /\ income = NoResult

\* a loan, in any of its shapes, before the first call; user is the second argument
InitOwnership ==
    /\ SchedulerIdle
    /\ earn = EarnIdle
    /\ storage = StorageIdle
    /\ roi = RoiIdle
    /\ \E variant \in Variants, l \in OwnershipLoans, user \in {Undefined, Some("ann"), Some("cat")} :
          own = [ variant |-> variant, user |-> user, loan |-> Some(l),
                  calls |-> 0, first |-> Undefined ]

SpecOwnership == InitOwnership /\ [][NormalizeOwnership]_vars

-----------------------------------------------------------------------------
(* The storage worker (part_000): GET /loans and PUT /loans over the file the  *)
(* GitHub contents API keeps.  The API replaces the file only when the sha sent *)
(* with the write is the sha of the file it holds, and answers 409 otherwise.  *)
(* A write gives the file a new sha; shas are numbered in the order of writes. *)
(* handlePut awaits twice, fetchLoansFile then writeLoansFile, so the requests *)
(* of different clients interleave between the two.                            *)

Clients == {1, 2}
MaxPuts == 3

\* normalizeLoans(incoming) for the n-th payload the worker is sent, from client c
Payload(c, n) == [ loans |-> <<c, n>> ]

\* the sha handlePut hands to writeLoansFile
ShaFromClient(c) == storage.client[c].seen
ShaForWrite(c) == storage.client[c].shaRead

\* a client loads the dashboard: handleGet answers the loans and the file's sha
HandleGet(c) ==
    /\ storage.client[c].pc = "idle"
    /\ storage' = [storage EXCEPT !.client[c].pc = "loaded",
                                  !.client[c].seen = storage.file.sha]
    /\ UNCHANGED <<loan, pc, i, calendarDate, balance, deferralRemaining, deferralTotal, schedule, hist, derived, income, own, earn, roi>>

\* the client saves, sending its loans and the sha it saw: handlePut normalizes the
\* body and awaits fetchLoansFile for the sha
HandlePutFetch(c) ==
    /\ storage.client[c].pc = "loaded"
    /\ Len(storage.log) + Cardinality({ d \in Clients : storage.client[d].pc = "writing" }) < MaxPuts
    /\ storage' = [storage EXCEPT !.client[c].pc = "writing",
                                  !.client[c].shaRead = storage.file.sha]
    /\ UNCHANGED <<loan, pc, i, calendarDate, balance, deferralRemaining, deferralTotal, schedule, hist, derived, income, own, earn, roi>>

\* handlePut awaits writeLoansFile: the API replaces the file, or answers 409 and
\* writeLoansFile throws, which fetch() turns into a 500
HandlePutWrite(c) ==
    /\ storage.client[c].pc = "writing"
    /\ LET ok == ShaForWrite(c) = storage.file.sha
           payload == Payload(c, Len(storage.log) + 1)
           entry == [ client |-> c, seen |-> storage.client[c].seen,
                      shaRead |-> storage.client[c].shaRead,
                      shaAtWrite |-> storage.file.sha,
                      payload |-> payload, ok |-> ok ]
       IN  storage' = [storage EXCEPT
               !.file = IF ok THEN [ loans |-> payload.loans, sha |-> storage.file.sha + 1 ]
                        ELSE @,
               !.client[c].pc = "idle",
               !.log = Append(@, entry)]
    /\ UNCHANGED <<loan, pc, i, calendarDate, balance, deferralRemaining, deferralTotal, schedule, hist, derived, income, own, earn, roi>>

InitStorage ==
    /\ SchedulerIdle
    /\ own = OwnIdle
    /\ earn = EarnIdle
    /\ roi = RoiIdle
    /\ storage = [ file |-> [ loans |-> <<0, 0>>, sha |-> 0 ],
                   client |-> [ c \in Clients |-> [ pc |-> "idle", seen |-> 0, shaRead |-> 0 ] ],
                   log |-> <<>> ]

NextStorage ==
    \/ \E c \in Clients : HandleGet(c)
    \/ \E c \in Clients : HandlePutFetch(c)
    \/ \E c \in Clients : HandlePutWrite(c)

SpecStorage == InitStorage /\ [][NextStorage]_vars

-----------------------------------------------------------------------------
(* Properties of the schedule *)

Rows == 1..Len(schedule)
LastRow == schedule[Len(schedule)]
Returned == pc = "done"

DeferralEvents == { k \in 1..Len(loan.events) :
                      loan.events[k].type = "deferral" /\ loan.events[k].months > 0 }

\* C1 as stated: every loan whose event list holds a default event gets a schedule
\* with exactly one defaulted/isTerminal row, and that row is the last one
\* (stated for the loans with a positive principal).
C1_EveryDefaultEventEndsTheSchedule ==
    (Returned /\ hasDefault /\ loan.principal > 0) =>
        /\ Cardinality({ k \in Rows : schedule[k].isTerminal /\ schedule[k].defaulted }) = 1
        /\ LastRow.isTerminal

\* C1 amended: a schedule holds at most one defaulted/isTerminal row; such a row is
\* the last row and sits in the month of the first dated default event; and the
\* schedule has one exactly when it has a row in that month (the month is reached
\* before the loan is paid off or its contractual months are used up).
C1_TerminalRowIsLastAndInDefaultMonth ==
    \A k \in Rows :
        /\ (schedule[k].isTerminal \/ schedule[k].defaulted) =>
               /\ k = Len(schedule)
               /\ Returned
               /\ hasDefault
               /\ schedule[k].loanDate = defaultMonthKey
               /\ schedule[k].isTerminal /\ schedule[k].defaulted
        /\ (hasDefault /\ schedule[k].loanDate = defaultMonthKey) =>
               schedule[k].isTerminal /\ schedule[k].defaulted

\* a default hits in the middle of a deferral run, after a payment row
C1_Witness ==
    /\ Returned
    /\ Len(schedule) >= 3
    /\ LastRow.isTerminal
    /\ schedule[Len(schedule) - 1].isDeferred
    /\ ~schedule[1].isDeferred

\* C2 as stated: every deferral event of N months has N isDeferred rows, on the N
\* months from its start month, and they and the first non-deferred row after them
\* carry one contractualMonth (stated for the loans with a positive principal).
C2_EveryDeferralEventGetsItsRows ==
    (Returned /\ loan.principal > 0) =>
        \A e \in DeferralEvents :
            LET first == loan.events[e].month
                N == loan.events[e].months
                run == { k \in Rows : schedule[k].loanDate \in first..(first + N - 1) }
                after == { k \in Rows : schedule[k].loanDate >= first + N
                                        /\ ~schedule[k].isDeferred }
            IN /\ Cardinality(run) = N
               /\ \A k \in run : schedule[k].isDeferred
               /\ \A k, l \in run : schedule[k].contractualMonth = schedule[l].contractualMonth
               /\ after # {}
               /\ \A k \in run : \A l \in after :
                      (\A m \in after : l <= m) =>
                          schedule[l].contractualMonth = schedule[k].contractualMonth

\* C2 amended: for every deferral run the scheduler activates (in a month it reaches
\* while no run is active; N = the summed months of the deferral events starting in
\* that month) the schedule holds N isDeferred rows on N consecutive months from
\* that month, unless the default month falls inside the run and cuts it with the
\* terminal row; the rows of the run and the row after it carry one contractualMonth.
\* A deferral event that starts inside an active run gets no rows of its own.
C2_ActivatedRunGetsItsRows ==
    \A k \in Rows :
        schedule[k].isDeferred =>
            LET r == schedule[k]
                N == r.deferralIndex + r.deferralRemaining
            IN /\ r.deferralRemaining >= 1 /\ r.deferralIndex >= 0
               /\ (r.deferralIndex = 0) =>
                      /\ N = deferralStartMap(r.loanDate)
                      /\ (k > 1 /\ schedule[k - 1].isDeferred) =>
                             schedule[k - 1].deferralRemaining = 1
               /\ (r.deferralIndex > 0) =>
                      /\ k > 1
                      /\ schedule[k - 1].isDeferred
                      /\ schedule[k - 1].deferralIndex = r.deferralIndex - 1
                      /\ schedule[k - 1].deferralRemaining = r.deferralRemaining + 1
                      /\ schedule[k - 1].loanDate = r.loanDate - 1
                      /\ schedule[k - 1].contractualMonth = r.contractualMonth
               /\ Returned =>
                      /\ k < Len(schedule)
                      /\ schedule[k + 1].contractualMonth = r.contractualMonth
                      /\ schedule[k + 1].loanDate = r.loanDate + 1
                      /\ IF r.deferralRemaining > 1
                         THEN \/ schedule[k + 1].isTerminal
                              \/ /\ schedule[k + 1].isDeferred
                                 /\ schedule[k + 1].deferralIndex = r.deferralIndex + 1
                         ELSE \/ ~schedule[k + 1].isDeferred
                              \/ schedule[k + 1].deferralIndex = 0

\* a full run of MaxDeferral months followed by a payment row of the same contractual month
C2_Witness ==
    /\ Returned
    /\ \E k \in Rows :
          /\ k + MaxDeferral <= Len(schedule)
          /\ schedule[k].isDeferred
          /\ schedule[k].deferralIndex = 0
          /\ schedule[k].deferralRemaining = MaxDeferral
          /\ \A j \in 0..(MaxDeferral - 1) : schedule[k + j].isDeferred
          /\ ~schedule[k + MaxDeferral].isDeferred
          /\ ~schedule[k + MaxDeferral].isTerminal
          /\ schedule[k + MaxDeferral].contractualMonth = schedule[k].contractualMonth


\* C3 as stated: with a positive principal, no default and no prepayment, the
\* schedule has (graceYears + termYears) * 12 non-deferred rows plus one row per
\* deferred month; deferral insertions never reduce the number of contractual rows.
C3_ContractualRowCount ==
    (/\ Returned
     /\ loan.principal > 0
     /\ \A e \in 1..Len(loan.events) : loan.events[e].type = "deferral") =>
        /\ Cardinality({ k \in Rows : ~schedule[k].isDeferred }) = totalMonths
        /\ Len(schedule) = totalMonths + Cardinality({ k \in Rows : schedule[k].isDeferred })

C6_PaymentFromRemainingContractualMonths ==
    \A k \in Rows :
        hist[k].kind = "payment" =>
            LET emitted == Cardinality({ j \in 1..(k - 1) : hist[j].kind = "payment" })
                left == repaymentMonths - emitted
            IN /\ hist[k].n = left
               /\ (loan.rate[1] = 0) => hist[k].pay = hist[k].balIn \div left

\* the prepayments of a row's month as one capped amount
DuePrepayment(k) == Min(hist[k].balPre, SumSeq(prepayMap(schedule[k].loanDate)))

PrepaymentAppliedInRow(k) ==
    LET h == hist[k]
        r == schedule[k]
        scheduled == IF h.kind = "payment" THEN Max(0, h.pay - TimesRate(h.balIn)) ELSE 0
    IN /\ h.applied = DuePrepayment(k)
       /\ r.prepayment = ToFixed2(DuePrepayment(k))
       /\ h.applied <= h.balPre
       /\ h.balOut = h.balPre - h.applied
       /\ r.balance = ToFixed2(h.balPre - h.applied)
       /\ r.principalPaid = ToFixed2(scheduled + h.applied)
       /\ r.principalPaid >= r.prepayment

\* C7 as stated: in any row the prepayments dated in the row's month are applied,
\* capped at the balance; the row's prepayment is the sum applied, it reduces the
\* balance by that sum and is part of principalPaid.
C7_PrepaymentAppliedInAnyRow ==
    \A k \in Rows : PrepaymentAppliedInRow(k)

\* C7 amended: the same, in any row that is not the terminal default row (a
\* prepayment dated in the default month is not applied).
C7_PrepaymentAppliedInNonTerminalRow ==
    \A k \in Rows : ~schedule[k].isTerminal => PrepaymentAppliedInRow(k)

\* two prepayments in one deferred month, the second capped at what is left
C7_Witness ==
    /\ Returned
    /\ \E k \in Rows :
          /\ schedule[k].isDeferred
          /\ Len(hist[k].amts) = 2
          /\ hist[k].applied > Head(hist[k].amts)
          /\ hist[k].applied < SumSeq(hist[k].amts)
          /\ schedule[k].principalPaid = schedule[k].prepayment

\* C8: the default is taken before anything else in its month: the only row of
\* the default month is the terminal row, it is not deferred, it carries no
\* prepayment, its principalPaid is min(balance, recoveryAmount) of the balance
\* the previous row left, and nothing follows it.
C8_DefaultHasPriority ==
    \A k \in Rows :
        LET r == schedule[k]
            h == hist[k]
        IN /\ (hasDefault /\ r.loanDate = defaultMonthKey) => r.isTerminal
           /\ r.isTerminal =>
                  /\ k = Len(schedule) /\ Returned
                  /\ \A j \in Rows : j # k => schedule[j].loanDate # r.loanDate
                  /\ ~r.isDeferred
                  /\ r.prepayment = 0
                  /\ h.balIn = IF k = 1 THEN loan.principal ELSE hist[k - 1].balOut
                  /\ r.principalPaid = ToFixed2(Min(h.balIn, defaultRecovery))
                  /\ r.payment = r.principalPaid
                  /\ r.balance = ToFixed2(h.balIn - Min(h.balIn, defaultRecovery))

\* the default month lies inside an active deferral run and carries a prepayment
C8_Witness ==
    /\ Returned
    /\ LastRow.isTerminal
    /\ hist[Len(schedule)].pending > 0
    /\ prepayMap(LastRow.loanDate) # <<>>
    /\ LastRow.balance > 0
    /\ Len(schedule) >= 2
    /\ schedule[Len(schedule) - 1].isDeferred

\* C9 as stated: a row that ends with balance 0 while no deferral month is left
\* pending is the last row of the schedule; no row follows a row with balance 0
\* unless a deferral was still pending at that row.
C9_NoRowAfterPayoff ==
    Returned =>
        \A k \in Rows :
            (schedule[k].balance = 0 /\ hist[k].balOut = 0 /\ hist[k].pending = 0) =>
                k = Len(schedule)

\* C10 as stated: every consumer takes a row as owned exactly when the scheduler
\* does (the row's month >= the first of the purchase month).
C10_ConsumersAgreeOnOwnership ==
    /\ derived # NoResult =>
          LET d == derived[1]
              ownedDates == { schedule[k].loanDate : k \in { j \in Rows : schedule[j].isOwned } }
          IN /\ \A k \in 1..Len(d.scheduleWithOwnership) :
                    d.scheduleWithOwnership[k].isOwned = d.scheduleWithOwnership[k].row.isOwned
             /\ { d.cumSchedule[k].row.loanDate : k \in 1..Len(d.cumSchedule) } = ownedDates
             /\ { d.roiSeries[k].date : k \in 1..Len(d.roiSeries) } = ownedDates
    /\ income # NoResult =>
          LET target == income[1].target
              paid == { k \in Rows : schedule[k].loanDate = target /\ schedule[k].isOwned }
          IN income[1].amount =
                 IF paid = {} THEN 0 ELSE schedule[CHOOSE k \in paid : TRUE].payment

-----------------------------------------------------------------------------
(* Properties of the ownership engine (SpecOwnership) *)

Normalized == own.loan # Undefined /\ own.calls >= 1
AllocationsNow == own.loan[1].ownership[1]

\* C11 as stated: after normalizeOwnership returns, the percents of
\* loan.ownership.allocations sum to exactly 100, for every input loan.
C11_AllocationsSumTo100 ==
    Normalized => SumPercent(AllocationsNow) = Hundred

\* C12 as stated: the loan after two calls of normalizeOwnership (allocations, their
\* order and percents, and the ownership entries derived from them) equals the loan
\* after one call.
C12_NormalizeIdempotent ==
    (own.loan # Undefined /\ own.calls = MaxCalls) => own.loan = own.first

-----------------------------------------------------------------------------
(* Properties of the earnings engine (SpecEarnings) *)

\* a deferred row of an earnings sequence adds nothing to what the row before it held
AddsNothing(rows, k) ==
    /\ rows[k].monthlyPrincipal = 0
    /\ rows[k].monthlyInterest = 0
    /\ rows[k].monthlyFees = 0
    /\ rows[k].cumPrincipal = (IF k = 1 THEN 0 ELSE rows[k - 1].cumPrincipal)
    /\ rows[k].cumInterest = (IF k = 1 THEN 0 ELSE rows[k - 1].cumInterest)
    /\ rows[k].cumFees = (IF k = 1 THEN 0 ELSE rows[k - 1].cumFees)

\* C13 as stated: every deferred row of the earnings schedule has monthlyPrincipal,
\* monthlyInterest and monthlyFees 0 and the cumulatives of the row before it, also
\* when the amortization row carries a prepayment or accrued interest, and the
\* earnings schedule has one row per amortization row; stated for the schedule of
\* buildEarningsSchedule and for the earned-to-date series of buildPortfolioViews.
C13_DeferredRowsEarnNothing ==
    /\ earn.schedule # Undefined =>
          LET rows == earn.schedule[1]
          IN  /\ Len(rows) = Len(schedule)
              /\ \A k \in 1..Len(rows) :
                    /\ rows[k].isDeferralMonth = schedule[k].isDeferred
                    /\ rows[k].isDeferralMonth => AddsNothing(rows, k)
    /\ earn.series # Undefined =>
          LET rows == earn.series[1]
          IN  \A k \in 1..Len(rows) : rows[k].isDeferred => AddsNothing(rows, k)

\* C25 as stated: every row of the earnings schedule has ownershipMonthIndex =
\* contractualMonth - monthsBetween(loanStartDate, purchaseDate), also in schedules
\* with deferral rows, and the row is owned iff that index is >= 1.
C25_OwnershipIndexFromContractualMonth ==
    earn.schedule # Undefined =>
        \A k \in 1..Len(earn.schedule[1]) :
            LET r == earn.schedule[1][k]
            IN  /\ r.ownershipMonthIndex
                       = r.contractualMonth - monthDiff(loan.startMonth, loan.purchaseDate[1])
                /\ r.isOwned <=> r.ownershipMonthIndex >= 1

\* the balance fees of the owned rows that are not deferred, summed
RECURSIVE BalanceFees(_)
BalanceFees(rows) ==
    IF rows = <<>> THEN 0
    ELSE (IF Head(rows).isOwned /\ ~Head(rows).isDeferralMonth /\ Head(rows).balance > 0
          THEN MonthlyBalanceFee(Head(rows).balance) ELSE 0)
         + BalanceFees(Tail(rows))

\* C26 as stated: in the earnings schedule of a loan with at least one owned row that
\* is not deferred, the upfront fee is charged exactly once (cumFees of the last row
\* holds it once), also when the first owned month is deferred; and no fee is
\* charged on a deferred or a non-owned row.
C26_UpfrontFeeChargedOnce ==
    earn.schedule # Undefined =>
        LET rows == earn.schedule[1]
        IN  /\ (\E k \in 1..Len(rows) : rows[k].isOwned /\ ~rows[k].isDeferralMonth) =>
                   rows[Len(rows)].cumFees = UpfrontFee + BalanceFees(rows)
            /\ \A k \in 1..Len(rows) :
                   (rows[k].isDeferralMonth \/ ~rows[k].isOwned) =>
                       (rows[k].monthlyFees = 0 /\ rows[k].feeThisMonth = 0)

\* C14: getCanonicalCurrentEarningsRow returns the first row of today's month; with
\* no such row the last owned row; with no owned row the last row; and null for an
\* empty schedule or one that is not an array.
C14_CanonicalCurrentRow ==
    earn.current # Undefined =>
        LET c == earn.current[1]
        IN  IF c.arg = Undefined \/ c.arg[1] = <<>> THEN c.row = Undefined
            ELSE LET rows == c.arg[1]
                     matching == { k \in 1..Len(rows) : rows[k].loanDate = c.today }
                     owned == { k \in 1..Len(rows) : rows[k].isOwned }
                     first == CHOOSE k \in matching : \A j \in matching : k <= j
                     lastOwned == CHOOSE k \in owned : \A j \in owned : k >= j
                 IN  c.row = Some(rows[ IF matching # {} THEN first
                                        ELSE IF owned # {} THEN lastOwned
                                        ELSE Len(rows) ])

\* today's month is in the schedule, on a row that is neither owned nor the last one,
\* while later rows are owned: the month's row is returned
C14_Witness ==
    /\ earn.current # Undefined
    /\ earn.current[1].arg # Undefined
    /\ LET c == earn.current[1]
           rows == c.arg[1]
       IN  /\ Len(rows) >= 3
           /\ \E k \in 1..(Len(rows) - 1) :
                 /\ rows[k].loanDate = c.today
                 /\ ~rows[k].isOwned
                 /\ rows[Len(rows)].isOwned
                 /\ c.row = Some(rows[k])

-----------------------------------------------------------------------------
(* Properties of the ROI engine (SpecRoi) *)

RECURSIVE Gcd(_, _)
Gcd(a, b) == IF b = 0 THEN a ELSE Gcd(b, a % b)

\* a ratio with a positive denominator, in lowest terms
Reduced(f) ==
    LET g == Gcd(IF f[1] >= 0 THEN f[1] ELSE -f[1], f[2])
    IN  <<f[1] \div g, f[2] \div g>>

\* the capital the user has invested in a derived loan, in hundredths
Invested100(l) == l.loan.ownershipPct * l.loan.purchasePrice

DerivedLoans == 1..Len(roi.loans)

\* C15 as stated: each ROI entry is scaled by the ownership fraction (realized,
\* unrealized and invested, hence roi = (realized + unrealized - invested) /
\* invested), and computeKPIs' total invested and capital recovery are over the
\* invested capital ownershipPct * purchasePrice, not the nominal purchase price.
C15_RoiScaledByOwnership ==
    /\ \A n \in DerivedLoans :
          LET l == roi.loans[n]
              pct == l.loan.ownershipPct
          IN  \A k \in 1..Len(l.roiSeries) :
                 LET e == l.roiSeries[k]
                     c == l.cumSchedule[k]
                     base == (c.row.cumPrincipal + c.row.cumInterest - c.cumFees) * 100
                     liquidation == c.row.balance * LiquidationPct
                 IN  /\ e.realized * 100 = base * pct
                     /\ e.unrealized * 100 = liquidation * pct
                     /\ Invested100(l) # 0 =>
                           e.roi = << base + liquidation - l.loan.purchasePrice * 100,
                                      l.loan.purchasePrice * 100 >>
    /\ roi.kpis # Undefined =>
          LET invested == SumOver([ n \in DerivedLoans |-> Invested100(roi.loans[n]) ],
                                  Len(roi.loans))
          IN  /\ roi.kpis[1].totalInvested * 100 = invested
              /\ invested # 0 => roi.kpis[1].capitalRecoveryPct[2] * 100 = invested

\* C16 as stated: a loan whose invested capital is 0 has roi = 0 in every ROI entry
\* produced for it, and no ROI computation yields Infinity or NaN (a ratio over 0).
C16_ZeroInvestedZeroRoi ==
    /\ \A n \in DerivedLoans :
          LET l == roi.loans[n]
          IN  /\ Invested100(l) = 0 =>
                    \A k \in 1..Len(l.roiSeries) :
                       l.roiSeries[k].roi[1] = 0 /\ l.roiSeries[k].roi[2] # 0
              /\ \A k \in 1..Len(l.roiSeries) : l.roiSeries[k].roi[2] # 0
    /\ roi.timeline # Undefined =>
          LET t == roi.timeline[1]
          IN  \A j \in 1..Len(t.dates) :
                 /\ t.weightedSeries[j].y[2] # 0
                 /\ \A n \in DerivedLoans :
                       LET y == t.perLoanSeries[n][j].y
                       IN  y # Undefined =>
                              /\ y[1][2] # 0
                              /\ Invested100(roi.loans[n]) = 0 => y[1][1] = 0
    /\ roi.kpis # Undefined =>
          /\ roi.kpis[1].weightedROI[2] # 0
          /\ roi.kpis[1].projectedWeightedROI[2] # 0

\* C17 as stated: in buildProjectedRoiTimeline a loan's y is null exactly in the
\* months before the loan's purchase month; in the purchase month and after it y is
\* the loan's most recent ROI observation at or before the month.
C17_ForwardFilledFromPurchaseMonth ==
    roi.timeline # Undefined =>
        LET t == roi.timeline[1]
        IN  \A n \in DerivedLoans, j \in 1..Len(t.dates) :
               LET l == roi.loans[n]
                   month == t.dates[j]
                   y == t.perLoanSeries[n][j].y
                   observed == { m \in DOMAIN RoiMap(l) : m <= month }
               IN  /\ (y = Undefined) <=> (month < l.loan.purchaseDate[1])
                   /\ (month >= l.loan.purchaseDate[1] /\ observed # {}) =>
                         y = Some(RoiMap(l)[SetMax(observed)])

\* C18 as stated: in each month of the timeline the weighted value is
\* sum(roi_l * w_l) / sum(w_l) over exactly the loans with a non-null value in the
\* month, w_l being the loan's invested capital; the loans not yet purchased count
\* in neither sum.
C18_WeightedOverLoansWithValue ==
    roi.timeline # Undefined =>
        LET t == roi.timeline[1]
        IN  \A j \in 1..Len(t.dates) :
               LET y(n) == t.perLoanSeries[n][j].y
                   weight(n) == IF y(n) # Undefined THEN Invested100(roi.loans[n]) ELSE 0
                   \* roi_l * w_l, in 1/10000: the roi of a loan is over purchasePrice * 100
                   term(n) == IF y(n) # Undefined /\ roi.loans[n].loan.purchasePrice # 0
                              THEN y(n)[1][1] * roi.loans[n].loan.ownershipPct ELSE 0
                   sumW == SumOver([ n \in DerivedLoans |-> weight(n) ], Len(roi.loans))
                   sumRoiW == SumOver([ n \in DerivedLoans |-> term(n) ], Len(roi.loans))
               IN  sumW > 0 =>
                      /\ t.weightedSeries[j].y[2] > 0
                      /\ Reduced(t.weightedSeries[j].y) = Reduced(<<sumRoiW, 100 * sumW>>)

-----------------------------------------------------------------------------
(* Properties of the TPV engine (SpecTpv) *)

\* a grace row of a derived loan: a contractual row in the loan's grace months
IsGraceRow(l, row) ==
    /\ ~row.isDeferred
    /\ ~row.isTerminal
    /\ row.loanDate - l.loan.startMonth < l.loan.graceYears * MonthsPerYear

\* C19 as stated: for each owned row buildLoanTPVTimeline emits value =
\* purchasePrice + the interest accrued and capitalized in the grace months up to
\* and including the row + the cumulative principalPaid up to and including the row
\* (both over the owned rows); buildPortfolioTPVSeries aligns the loans on the
\* sorted union of their months, with 0 where a loan has no row, and totalsByMonth
\* is the sum of the loans' values in the month.
C19_TpvValueAndAlignment ==
    roi.tpv # Undefined =>
        LET t == roi.tpv[1]
        IN  /\ \A n \in DerivedLoans :
                  LET l == roi.loans[n]
                      owned == SelectSeq(l.amort, LAMBDA r : r.isOwned)
                  IN  /\ Len(t.timelines[n]) = Len(owned)
                      /\ \A k \in 1..Len(owned) :
                            /\ t.timelines[n][k].monthKey = owned[k].loanDate
                            /\ t.timelines[n][k].value =
                                  l.loan.purchasePrice
                                  + SumSeq([ j \in 1..k |-> IF IsGraceRow(l, owned[j])
                                                            THEN owned[j].interest ELSE 0 ])
                                  + SumSeq([ j \in 1..k |-> owned[j].principalPaid ])
            /\ \A j \in 1..Len(t.months) :
                  /\ j > 1 => t.months[j - 1] < t.months[j]
                  /\ \A n \in DOMAIN t.seriesByLoan :
                        LET at == { k \in 1..Len(t.timelines[n]) :
                                      t.timelines[n][k].monthKey = t.months[j] }
                        IN  t.seriesByLoan[n][j] =
                               (IF at = {} THEN 0 ELSE t.timelines[n][CHOOSE k \in at : TRUE].value)
                  /\ t.totalsByMonth[j] =
                        SumOver([ n \in DerivedLoans |->
                                    IF n \in DOMAIN t.seriesByLoan THEN t.seriesByLoan[n][j] ELSE 0 ],
                                Len(roi.loans))
            /\ { t.months[j] : j \in 1..Len(t.months) } =
                  UNION { { t.timelines[n][k].monthKey : k \in 1..Len(t.timelines[n]) } :
                          n \in DerivedLoans }

-----------------------------------------------------------------------------
(* Properties of the date guards (SpecDates) *)

\* C20 as stated: with an unparseable loanStartDate or purchaseDate buildAmortSchedule
\* throws and returns no rows; it never computes a schedule from an invalid date.
C20_InvalidDateThrows ==
    (IsInvalidDate(loan.startMonth) \/ IsInvalidDate(loan.purchaseDate[1])) =>
        /\ pc \in {"entry", "thrown"}
        /\ schedule = <<>>

-----------------------------------------------------------------------------
(* Properties of the scheduler loop (SpecSchedule) *)

\* the months requested by all deferral events of the loan
RECURSIVE RequestedMonths(_)
RequestedMonths(evs) ==
    IF evs = <<>> THEN 0
    ELSE (IF Head(evs).type = "deferral" THEN Max(0, Head(evs).months) ELSE 0)
         + RequestedMonths(Tail(evs))

\* C22: buildAmortSchedule terminates for every loan and event list, and it emits at
\* most (graceYears + termYears) * 12 rows plus the months requested by all deferral
\* events.
C22_TerminatesWithinBound ==
    /\ [](Len(schedule) <= totalMonths + RequestedMonths(loan.events))
    /\ <>(pc = "done")

\* a finished schedule that reaches the bound, deferral months included
C22_Witness ==
    /\ pc = "done"
    /\ RequestedMonths(loan.events) > 0
    /\ Len(schedule) = totalMonths + RequestedMonths(loan.events)

\* row k opens a deferral run / row k is written while a run opened earlier is active
ActivatedAt(k) == schedule[k].isDeferred /\ schedule[k].deferralIndex = 0
RunActiveAt(k) == k > 1 /\ schedule[k - 1].isDeferred /\ schedule[k - 1].deferralRemaining > 1
RunEndedBefore(k) == k > 1 /\ schedule[k - 1].isDeferred /\ schedule[k - 1].deferralRemaining = 1

\* what C24 says of every month the loop has reached, the default month or not
C24_Rule(exceptDefaultMonth) ==
    \A k \in 1..Len(schedule) :
        LET r == schedule[k]
        IN /\ ActivatedAt(k) =>
                  /\ deferralStartMap(r.loanDate) > 0
                  /\ ~RunActiveAt(k)
                  /\ r.deferralRemaining = deferralStartMap(r.loanDate)
           /\ RunActiveAt(k) =>
                  \/ r.isTerminal
                  \/ /\ r.isDeferred
                     /\ r.deferralIndex = schedule[k - 1].deferralIndex + 1
                     /\ r.deferralRemaining = schedule[k - 1].deferralRemaining - 1
           /\ (RunEndedBefore(k) /\ deferralStartMap(r.loanDate) = 0) => ~r.isDeferred
           /\ (RunEndedBefore(k) /\ deferralStartMap(r.loanDate) > 0) =>
                  \/ ActivatedAt(k)
                  \/ exceptDefaultMonth /\ r.isTerminal

\* C24 as stated: a deferral is activated in a month only if a deferral event starts
\* in it and no deferral is active; an event starting inside an active run is never
\* activated and adds no rows, then or later; an event starting in the month right
\* after a run ends is activated.
C24_ActivationOnlyWhenIdle == C24_Rule(FALSE)

\* C24 amended: as stated, except that an event starting in the month right after a
\* run ends is not activated when that month is the default month: the terminal row
\* is written instead.
C24_ActivationOnlyWhenIdleNorDefault == C24_Rule(TRUE)

\* a run of MaxDeferral months with an event starting inside it that opens no run,
\* followed at once by the run of the event starting in the month after it
C24_Witness ==
    /\ pc = "done"
    /\ \E k \in 1..Len(schedule) :
          /\ k + MaxDeferral <= Len(schedule)
          /\ ActivatedAt(k)
          /\ schedule[k].deferralRemaining = MaxDeferral
          /\ \E j \in 1..(MaxDeferral - 1) :
                /\ deferralStartMap(schedule[k + j].loanDate) > 0
                /\ schedule[k + j].deferralIndex = j
          /\ RunEndedBefore(k + MaxDeferral)
          /\ ActivatedAt(k + MaxDeferral)

\* C28: the rows of a schedule occupy consecutive calendar months: row k has
\* monthIndex k and the loanDate of month (loan start + k - 1); contractualMonth
\* starts at 1, stays the same from a deferred row to the next row and grows by
\* exactly 1 from a non-deferred row to the next row.
C28_ConsecutiveMonths ==
    \A k \in 1..Len(schedule) :
        /\ schedule[k].monthIndex = k
        /\ schedule[k].loanDate = loan.startMonth + k - 1
        /\ k = 1 => schedule[k].contractualMonth = 1
        /\ k > 1 => schedule[k].contractualMonth =
                        IF schedule[k - 1].isDeferred
                        THEN schedule[k - 1].contractualMonth
                        ELSE schedule[k - 1].contractualMonth + 1

\* a finished schedule with a payment row, a deferral run after it, a row after the run
C28_Witness ==
    /\ pc = "done"
    /\ \E k \in 2..Len(schedule) - 2 :
          /\ ~schedule[k - 1].isDeferred
          /\ schedule[k].isDeferred
          /\ schedule[k + 1].isDeferred
          /\ ~schedule[k + 2].isDeferred
          /\ schedule[k + 2].contractualMonth = schedule[k].contractualMonth

\* C29: in a deferral run of total length N the j-th deferred row (j = 0..N-1) has
\* deferralIndex j and deferralRemaining N - j, payment 0, interest 0 and
\* principalPaid = prepayment; a row that is neither deferred nor the default row has
\* isDeferred false and deferralIndex and deferralRemaining null.
C29_DeferralFlags ==
    \A k \in 1..Len(schedule) :
        LET r == schedule[k]
        IN IF r.isDeferred
           THEN /\ r.deferralIndex \in 0..(k - 1)
                /\ \A j \in 0..r.deferralIndex :
                       /\ schedule[k - j].isDeferred
                       /\ schedule[k - j].deferralIndex = r.deferralIndex - j
                /\ r.deferralIndex + r.deferralRemaining
                       = deferralStartMap(r.loanDate - r.deferralIndex)
                /\ r.deferralRemaining >= 1
                /\ r.payment = 0
                /\ r.interest = 0
                /\ r.principalPaid = r.prepayment
           ELSE ~r.defaulted => (r.deferralIndex = Null /\ r.deferralRemaining = Null)

\* a finished schedule with a whole run of MaxDeferral rows, a prepayment inside it
C29_Witness ==
    /\ pc = "done"
    /\ \E k \in 1..Len(schedule) :
          /\ schedule[k].isDeferred
          /\ schedule[k].deferralIndex = MaxDeferral - 1
          /\ schedule[k].deferralRemaining = 1
          /\ \E j \in 0..(MaxDeferral - 1) : schedule[k - j].prepayment > 0
          /\ k < Len(schedule)
          /\ ~schedule[k + 1].isDeferred
          /\ ~schedule[k + 1].defaulted

-----------------------------------------------------------------------------
(* Properties of the batch calls (SpecBatch) *)

\* a loan whose loanStartDate or purchaseDate does not parse
Malformed(l) == IsInvalidDate(l.startMonth) \/ IsInvalidDate(l.purchaseDate[1])

\* C21 as stated: when a loan of the array passed to attachSchedules or
\* deriveLoansWithRoi has a malformed date, the call still returns, with a schedule
\* for every other loan of the array; the batch is not aborted.
C21_FailuresIsolated ==
    pc \in {"returned", "aborted"} =>
        /\ pc = "returned"
        /\ \A k \in 1..Len(roi.formattedLoans) :
               ~Malformed(roi.formattedLoans[k]) =>
                   \E j \in 1..Len(roi.loans) : roi.loans[j].loan = roi.formattedLoans[k]

-----------------------------------------------------------------------------
(* Properties of the runs at different wall-clock times (SpecClock) *)

\* C23 as stated: the outputs are a function of the loans, the events and an
\* explicitly supplied today only: runs on identical inputs give identical outputs
\* whatever the wall-clock time of the run.
C23_Deterministic ==
    /\ \A a, b \in 1..Len(income) : income[a] = income[b]
    /\ \A a, b \in 1..Len(roi.tpv) : roi.tpv[a] = roi.tpv[b]

-----------------------------------------------------------------------------
(* Properties of the normalization (SpecNormalize) *)

\* C27 as stated: normalization coerces every invalid (non-numeric) or negative
\* numeric field of a raw loan record to 0: no normalized loan carries a negative
\* number or NaN.
C27_InvalidOrNegativeCoercedToZero ==
    pc = "normalized" =>
        \A f \in DOMAIN derived[1] :
            /\ derived[1][f].kind = "number"
            /\ derived[1][f].n >= 0

-----------------------------------------------------------------------------
(* Properties of the storage worker (SpecStorage) *)

\* the PUTs answered ok, by their place in the log
OkPuts == { k \in 1..Len(storage.log) : storage.log[k].ok }

\* C30: PUT /loans never rejects an update because the client's copy is stale:
\* handlePut writes against the sha it reads itself, whatever sha the client saw.
\* A PUT fails only if another write lands between its own sha read and its write;
\* two clients that read the same version and PUT one after the other both get ok,
\* and the store holds the payload of the last PUT answered ok.
C30_LastWriterWins ==
    LET log == storage.log
    IN  /\ \A k \in 1..Len(log) :
               /\ log[k].ok <=> log[k].shaRead = log[k].shaAtWrite
               /\ ~log[k].ok =>
                      \E j \in 1..(k - 1) :
                          log[j].ok /\ log[j].shaAtWrite >= log[k].shaRead
        /\ \A k \in 2..Len(log) :
               (log[k - 1].ok /\ log[k].shaRead = log[k - 1].shaAtWrite + 1) => log[k].ok
        /\ storage.file.sha = Cardinality(OkPuts)
        /\ OkPuts # {} =>
               storage.file.loans = log[CHOOSE k \in OkPuts : \A j \in OkPuts : j <= k].payload.loans

\* two clients read the same version, then PUT one after the other: both are
\* answered ok and the file holds the second payload only
C30_Witness ==
    /\ Len(storage.log) = 2
    /\ storage.log[1].ok /\ storage.log[2].ok
    /\ storage.log[1].client # storage.log[2].client
    /\ storage.log[1].seen = storage.log[2].seen
    /\ storage.log[2].seen < storage.log[2].shaAtWrite
    /\ storage.log[2].shaRead = storage.log[1].shaAtWrite + 1
    /\ storage.file.loans = storage.log[2].payload.loans

====
